---- MODULE Spec2Model ----
(***************************************************************************)
(* Multi-version schema storage of the CDC pipeline                        *)
(* (cdc/entry/schema_storage.go): schemaSnapshot, its DDL application,     *)
(* and schemaStorageImpl with its history of snapshots, the resolved-ts    *)
(* and gc-ts watermarks.                                                   *)
(***************************************************************************)
EXTENDS Integers, Sequences, FiniteSets, TLC

(***************************************************************************)
(* Bounds of the model.                                                    *)
(***************************************************************************)
\* largest commit timestamp a DDL job or a caller may use
MaxTs == 2
\* number of snapshots one storage creates in a behaviour (the first included)
MaxSnaps == MaxTs + 1
\* timestamps
Ts == 0..MaxTs

(***************************************************************************)
(* Values.  A Go pointer that may be nil is a sequence of length 0 or 1.   *)
(***************************************************************************)
Nil == <<>>
Some(x) == <<x>>
IsNil(o) == o = <<>>
Val(o) == o[1]

Restrict(f, S) == [x \in S |-> f[x]]
MapDelete(f, k) == [x \in (DOMAIN f) \ {k} |-> f[x]]
MapPut(f, k, v) == [x \in (DOMAIN f) \cup {k} |-> IF x = k THEN v ELSE f[x]]
EmptyMap == [x \in {} |-> 0]

SeqRange(q) == {q[i] : i \in 1..Len(q)}

\* CIStr: a name is kept by its original form O; L is its lower-case form
Lower(o) == IF o = "B" THEN "b" ELSE o

\* timodel.DBInfo, as far as the storage reads it
DBInfo(id, name, charset) == [ID |-> id, Name |-> name, Charset |-> charset]
\* timodel.DBInfo.Copy: a copy of the record
DBCopy(db) == [ID |-> db.ID, Name |-> db.Name, Charset |-> db.Charset]

\* timodel.TableInfo: id, name, optional partition definitions (their ids),
\* and whether the table has a usable row identity
TableInfo(id, name, part, handle) ==
    [ID |-> id, Name |-> name, Partition |-> part, HasHandle |-> handle]

TableName(schema, table) == [Schema |-> schema, Table |-> table]

\* model.WrapTableInfo: the table record a snapshot stores
WrapTableInfo(schemaID, schemaName, version, info) ==
    [ID |-> info.ID, SchemaID |-> schemaID,
     TableName |-> TableName(schemaName, info.Name),
     TableInfoVersion |-> version,
     Partition |-> info.Partition, HasHandle |-> info.HasHandle]

\* model.TableInfo.GetPartitionInfo
GetPartitionInfo(table) == table.Partition

\* model.TableInfo.IsEligible
IsEligible(table, forceReplicate) == forceReplicate \/ table.HasHandle

(***************************************************************************)
(* Go slices of table ids.  A slice is a backing array (a key of the heap  *)
(* h, or NoArr for a slice without storage) and a length; its capacity is  *)
(* the length of the backing array.                                        *)
(***************************************************************************)
NoArr == <<>>
Slice(arr, len) == [arr |-> arr, len |-> len]
SliceCap(h, sl) == IF sl.arr = NoArr THEN 0 ELSE Len(h[sl.arr])
SliceElems(h, sl) == IF sl.len = 0 THEN <<>> ELSE SubSeq(h[sl.arr], 1, sl.len)
Zeros(n) == [i \in 1..n |-> 0]
\* runtime growslice for a slice of int64 growing by one element
GrowCap(c) == IF c = 0 THEN 1 ELSE 2 * c

\* append(slice, x), a new backing array getting the key `key`
SliceAppend(h, sl, x, key) ==
    IF sl.len < SliceCap(h, sl)
    THEN [h |-> [h EXCEPT ![sl.arr][sl.len + 1] = x], sl |-> Slice(sl.arr, sl.len + 1)]
    ELSE [h |-> MapPut(h, key, SliceElems(h, sl) \o <<x>>
                               \o Zeros(GrowCap(SliceCap(h, sl)) - sl.len - 1)),
          sl |-> Slice(key, sl.len + 1)]

\* least index of x in the slice, 0 when absent
SliceIndex(h, sl, x) ==
    LET I == {i \in 1..sl.len : h[sl.arr][i] = x}
    IN IF I = {} THEN 0 ELSE CHOOSE i \in I : \A j \in I : i <= j

\* the removal as it would be without the reslice to len(s)-1
SliceRemoveAtKeepingLen(h, sl, i) ==
    [h |-> [h EXCEPT ![sl.arr] =
              [j \in 1..Len(h[sl.arr]) |->
                 IF j >= i /\ j < sl.len THEN h[sl.arr][j + 1] ELSE h[sl.arr][j]]],
     sl |-> sl]

\* copy(s[i:], s[i+1:]); s[:len(s)-1]
SliceRemoveAt(h, sl, i) ==
    [h |-> [h EXCEPT ![sl.arr] =
              [j \in 1..Len(h[sl.arr]) |->
                 IF j >= i /\ j < sl.len THEN h[sl.arr][j + 1] ELSE h[sl.arr][j]]],
     sl |-> Slice(sl.arr, sl.len - 1)]

(***************************************************************************)
(* schemaSnapshot                                                          *)
(***************************************************************************)
newEmptySchemaSnapshot(forceReplicate) ==
    [tableNameToID |-> EmptyMap, schemaNameToID |-> EmptyMap,
     schemas |-> EmptyMap, tables |-> EmptyMap, partitionTable |-> EmptyMap,
     tableInSchema |-> EmptyMap,
     truncateTableID |-> {}, ineligibleTableID |-> {},
     currentTs |-> 0, forceReplicate |-> forceReplicate]

\* The state of one DDL application: the snapshot s being changed (the object
\* with serial number self), the heap h of backing arrays, and the error the
\* application has ended with ("nil" while it has not failed).
Mach(s, h, self) == [s |-> s, h |-> h, self |-> self, err |-> "nil"]
Fail(m, e) == [m EXCEPT !.err = e]
Ok(m) == m.err = "nil"

PartIDs(table) == IF IsNil(GetPartitionInfo(table)) THEN <<>> ELSE Val(GetPartitionInfo(table))

\* the partition-index entries of `table`: every partition id maps to it
PutPartitions(pt, table) ==
    [x \in (DOMAIN pt) \cup SeqRange(PartIDs(table)) |->
        IF x \in SeqRange(PartIDs(table)) THEN table ELSE pt[x]]

\* Clone as it would be with the per-schema table lists copied by reference
CloneSharingLists(s, h, self) ==
    Mach([s EXCEPT !.schemas = [k \in DOMAIN s.schemas |-> DBCopy(s.schemas[k])]], h, self)

\* Clone as it would be without the copy of truncateTableID (lines 257-261)
CloneWithoutTruncated(s, h, self) ==
    LET keys == {<<self, sid>> : sid \in DOMAIN s.tableInSchema}
    IN Mach([s EXCEPT
               !.schemas = [k \in DOMAIN s.schemas |-> DBCopy(s.schemas[k])],
               !.tableInSchema = [sid \in DOMAIN s.tableInSchema |->
                                    Slice(<<self, sid>>, s.tableInSchema[sid].len)],
               !.truncateTableID = {}],
            [k \in (DOMAIN h) \cup keys |->
               IF k \in keys THEN SliceElems(h, s.tableInSchema[k[2]]) ELSE h[k]],
            self)

\* schemaSnapshot.Clone, the clone being the object with serial number self
Clone(s, h, self) ==
    LET keys == {<<self, sid>> : sid \in DOMAIN s.tableInSchema}
    IN Mach([s EXCEPT
               !.schemas = [k \in DOMAIN s.schemas |-> DBCopy(s.schemas[k])],
               !.tableInSchema = [sid \in DOMAIN s.tableInSchema |->
                                    Slice(<<self, sid>>, s.tableInSchema[sid].len)]],
            [k \in (DOMAIN h) \cup keys |->
               IF k \in keys THEN SliceElems(h, s.tableInSchema[k[2]]) ELSE h[k]],
            self)

\* schemaSnapshot.GetTableNameByID; a nil dereference is the result "panic"
GetTableNameByID(s, id) ==
    IF id \in DOMAIN s.tables THEN [name |-> Some(s.tables[id].TableName), ok |-> TRUE, err |-> "nil"]
    ELSE IF id \notin DOMAIN s.partitionTable THEN [name |-> Nil, ok |-> FALSE, err |-> "nil"]
    ELSE IF s.partitionTable[id].ID \notin DOMAIN s.tables THEN [name |-> Nil, ok |-> FALSE, err |-> "panic"]
    ELSE [name |-> Some(s.tables[s.partitionTable[id].ID].TableName), ok |-> TRUE, err |-> "nil"]

\* schemaSnapshot.GetTableIDByName
GetTableIDByName(s, schemaName, tableName) ==
    IF TableName(schemaName, tableName) \in DOMAIN s.tableNameToID
    THEN [id |-> s.tableNameToID[TableName(schemaName, tableName)], ok |-> TRUE]
    ELSE [id |-> 0, ok |-> FALSE]

\* schemaSnapshot.SchemaByID
SchemaByID(s, id) ==
    IF id \in DOMAIN s.schemas THEN Some(s.schemas[id]) ELSE Nil

\* schemaSnapshot.TableByID
TableByID(s, id) ==
    IF id \in DOMAIN s.tables THEN Some(s.tables[id]) ELSE Nil

\* schemaSnapshot.SchemaByTableID
SchemaByTableID(s, tableID) ==
    IF tableID \notin DOMAIN s.tables THEN Nil
    ELSE IF s.tables[tableID].TableName.Schema \notin DOMAIN s.schemaNameToID THEN Nil
    ELSE SchemaByID(s, s.schemaNameToID[s.tables[tableID].TableName.Schema])

\* PhysicalTableByID as it would be if it looked into partitionTable first
PhysicalTableByIDPartitionFirst(s, id) ==
    IF id \in DOMAIN s.partitionTable THEN Some(s.partitionTable[id])
    ELSE IF id \in DOMAIN s.tables THEN Some(s.tables[id])
    ELSE Nil

\* schemaSnapshot.PhysicalTableByID
PhysicalTableByID(s, id) ==
    IF id \in DOMAIN s.tables THEN Some(s.tables[id])
    ELSE IF id \in DOMAIN s.partitionTable THEN Some(s.partitionTable[id])
    ELSE Nil

\* schemaSnapshot.IsTruncateTableID
IsTruncateTableID(s, id) == id \in s.truncateTableID

\* schemaSnapshot.IsIneligibleTableID
IsIneligibleTableID(s, id) == id \in s.ineligibleTableID

\* FillSchemaName as it would be with the lookup of job.SchemaID for every job type
FillSchemaNameByLookup(s, job) ==
    IF IsNil(SchemaByID(s, job.SchemaID))
    THEN [job |-> job, err |-> "ErrSnapshotSchemaNotFound"]
    ELSE [job |-> [job EXCEPT !.SchemaName = Val(SchemaByID(s, job.SchemaID)).Name],
          err |-> "nil"]

\* schemaSnapshot.FillSchemaName: the job with its SchemaName filled, and the error
FillSchemaName(s, job) ==
    IF job.Type = "ActionRenameTables" THEN [job |-> job, err |-> "nil"]
    ELSE IF job.Type \in {"ActionCreateSchema", "ActionDropSchema"}
    THEN IF IsNil(job.BinlogInfo) \/ IsNil(Val(job.BinlogInfo).DBInfo)
         THEN [job |-> job, err |-> "panic"]
         ELSE [job |-> [job EXCEPT !.SchemaName = Val(Val(job.BinlogInfo).DBInfo).Name],
               err |-> "nil"]
    ELSE IF IsNil(SchemaByID(s, job.SchemaID))
    THEN [job |-> job, err |-> "ErrSnapshotSchemaNotFound"]
    ELSE [job |-> [job EXCEPT !.SchemaName = Val(SchemaByID(s, job.SchemaID)).Name],
          err |-> "nil"]

\* the loop of dropSchema over the schema's table ids
RECURSIVE dropSchemaTables(_, _)
dropSchemaTables(m, ids) ==
    IF ids = <<>> \/ ~Ok(m) THEN m
    ELSE LET tableID == Head(ids) IN
         IF tableID \notin DOMAIN m.s.tables THEN Fail(m, "panic")
         ELSE LET table == m.s.tables[tableID] IN
              dropSchemaTables(
                [m EXCEPT
                   !.s.partitionTable = Restrict(@, (DOMAIN @) \ SeqRange(PartIDs(table))),
                   !.s.tables = MapDelete(@, tableID),
                   !.s.tableNameToID = Restrict(@, (DOMAIN @) \ {table.TableName})],
                Tail(ids))

\* dropSchema, lines 388-390: the schema leaves the three schema maps
dropSchemaMaps(m, id) ==
    IF ~Ok(m) THEN m
    ELSE [m EXCEPT
            !.s.schemas = MapDelete(@, id),
            !.s.tableInSchema = Restrict(@, (DOMAIN @) \ {id}),
            !.s.schemaNameToID = Restrict(@, (DOMAIN @) \ {m.s.schemas[id].Name})]

\* schemaSnapshot.dropSchema
dropSchema(m, id) ==
    IF id \notin DOMAIN m.s.schemas THEN Fail(m, "ErrSnapshotSchemaNotFound")
    ELSE dropSchemaMaps(
            dropSchemaTables(m, IF id \in DOMAIN m.s.tableInSchema
                                THEN SliceElems(m.h, m.s.tableInSchema[id]) ELSE <<>>),
            id)

\* schemaSnapshot.createSchema
createSchema(m, db) ==
    IF db.ID \in DOMAIN m.s.schemas THEN Fail(m, "ErrSnapshotSchemaExists")
    ELSE [m EXCEPT
            !.s.schemas = MapPut(@, db.ID, DBCopy(db)),
            !.s.schemaNameToID = MapPut(@, db.Name, db.ID),
            !.s.tableInSchema = MapPut(@, db.ID, Slice(NoArr, 0))]

\* schemaSnapshot.replaceSchema
replaceSchema(m, db) ==
    IF db.ID \notin DOMAIN m.s.schemas THEN Fail(m, "ErrSnapshotSchemaNotFound")
    ELSE [m EXCEPT
            !.s.schemas = MapPut(@, db.ID, DBCopy(db)),
            !.s.schemaNameToID = MapPut(@, db.Name, db.ID)]

\* dropTable as it would be without the delete of line 444
dropTableKeepingName(m, id) ==
    IF id \notin DOMAIN m.s.tables THEN Fail(m, "ErrSnapshotTableNotFound")
    ELSE LET table == m.s.tables[id] IN
         IF table.SchemaID \notin DOMAIN m.s.tableInSchema
         THEN Fail(m, "ErrSnapshotSchemaNotFound")
         ELSE LET sl == m.s.tableInSchema[table.SchemaID]
                  i == SliceIndex(m.h, sl, id)
                  r == IF i = 0 THEN [h |-> m.h, sl |-> sl] ELSE SliceRemoveAt(m.h, sl, i)
              IN [m EXCEPT
                    !.h = r.h,
                    !.s.tableInSchema[table.SchemaID] = r.sl,
                    !.s.tables = MapDelete(@, id),
                    !.s.partitionTable = Restrict(@, (DOMAIN @) \ SeqRange(PartIDs(table))),
                    !.s.ineligibleTableID = (@ \ SeqRange(PartIDs(table))) \ {id}]

\* schemaSnapshot.dropTable
dropTable(m, id) ==
    IF id \notin DOMAIN m.s.tables THEN Fail(m, "ErrSnapshotTableNotFound")
    ELSE LET table == m.s.tables[id] IN
         IF table.SchemaID \notin DOMAIN m.s.tableInSchema
         THEN Fail(m, "ErrSnapshotSchemaNotFound")
         ELSE LET sl == m.s.tableInSchema[table.SchemaID]
                  i == SliceIndex(m.h, sl, id)
                  r == IF i = 0 THEN [h |-> m.h, sl |-> sl] ELSE SliceRemoveAt(m.h, sl, i)
              IN [m EXCEPT
                    !.h = r.h,
                    !.s.tableInSchema[table.SchemaID] = r.sl,
                    !.s.tables = MapDelete(@, id),
                    !.s.partitionTable = Restrict(@, (DOMAIN @) \ SeqRange(PartIDs(table))),
                    !.s.tableNameToID = Restrict(@, (DOMAIN @) \ {table.TableName}),
                    !.s.ineligibleTableID = (@ \ SeqRange(PartIDs(table))) \ {id}]

\* updatePartition as it would be without the loop over the old partition ids
updatePartitionKeepingOld(m, tbl) ==
    IF tbl.ID \notin DOMAIN m.s.tables THEN Fail(m, "ErrSnapshotTableNotFound")
    ELSE IF IsNil(GetPartitionInfo(m.s.tables[tbl.ID])) THEN Fail(m, "ErrSnapshotTableNotFound")
    ELSE IF IsNil(GetPartitionInfo(tbl)) THEN Fail(m, "ErrSnapshotTableNotFound")
    ELSE [m EXCEPT
            !.s.tables = MapPut(@, tbl.ID, tbl),
            !.s.partitionTable = PutPartitions(@, tbl),
            !.s.ineligibleTableID =
                IF IsEligible(tbl, m.s.forceReplicate) THEN @
                ELSE @ \cup SeqRange(PartIDs(tbl))]

\* schemaSnapshot.updatePartition
updatePartition(m, tbl) ==
    IF tbl.ID \notin DOMAIN m.s.tables THEN Fail(m, "ErrSnapshotTableNotFound")
    ELSE LET table == m.s.tables[tbl.ID] IN
         IF IsNil(GetPartitionInfo(table)) THEN Fail(m, "ErrSnapshotTableNotFound")
         ELSE IF IsNil(GetPartitionInfo(tbl)) THEN Fail(m, "ErrSnapshotTableNotFound")
         ELSE LET newIDs == SeqRange(PartIDs(tbl))
                  oldIDs == SeqRange(PartIDs(table)) \ newIDs
              IN [m EXCEPT
                    !.s.tables = MapPut(@, tbl.ID, tbl),
                    !.s.partitionTable =
                        Restrict(PutPartitions(@, tbl), ((DOMAIN @) \cup newIDs) \ oldIDs),
                    !.s.ineligibleTableID =
                        (IF IsEligible(tbl, m.s.forceReplicate) THEN @ ELSE @ \cup newIDs)
                        \ oldIDs,
                    !.s.truncateTableID = @ \cup oldIDs]

\* schemaSnapshot.createTable; it is not run when the step before it has failed
createTable(m, table) ==
    IF ~Ok(m) THEN m
    ELSE IF table.SchemaID \notin DOMAIN m.s.schemas THEN Fail(m, "ErrSnapshotSchemaNotFound")
    ELSE IF table.SchemaID \notin DOMAIN m.s.tableInSchema
    THEN Fail(m, "ErrSnapshotSchemaNotFound")
    ELSE IF table.ID \in DOMAIN m.s.tables THEN Fail(m, "ErrSnapshotTableExists")
    ELSE LET r == SliceAppend(m.h, m.s.tableInSchema[table.SchemaID], table.ID,
                              <<m.self, table.SchemaID>>)
         IN [m EXCEPT
               !.h = r.h,
               !.s.tableInSchema[table.SchemaID] = r.sl,
               !.s.tables = MapPut(@, table.ID, table),
               !.s.ineligibleTableID =
                   IF IsEligible(table, m.s.forceReplicate) THEN @
                   ELSE @ \cup {table.ID} \cup SeqRange(PartIDs(table)),
               !.s.partitionTable = PutPartitions(@, table),
               !.s.tableNameToID = MapPut(@, table.TableName, table.ID)]

\* schemaSnapshot.replaceTable
replaceTable(m, table) ==
    IF table.ID \notin DOMAIN m.s.tables THEN Fail(m, "ErrSnapshotTableNotFound")
    ELSE [m EXCEPT
            !.s.tables = MapPut(@, table.ID, table),
            !.s.ineligibleTableID =
                IF IsEligible(table, m.s.forceReplicate) THEN @
                ELSE @ \cup {table.ID} \cup SeqRange(PartIDs(table)),
            !.s.partitionTable = PutPartitions(@, table)]

\* the first loop of renameTables: drop the old tables in input order
RECURSIVE renameTablesDrop(_, _)
renameTablesDrop(m, ids) ==
    IF ids = <<>> \/ ~Ok(m) THEN m
    ELSE renameTablesDrop(dropTable(m, Head(ids)), Tail(ids))

\* the second loop of renameTables, from index i on
RECURSIVE renameTablesCreate(_, _, _, _)
renameTablesCreate(m, job, newSchemaIDs, i) ==
    LET infos == Val(job.BinlogInfo).MultipleTableInfos IN
    IF i > Len(infos) \/ ~Ok(m) THEN m
    ELSE IF i > Len(newSchemaIDs) THEN Fail(m, "panic")
    ELSE IF IsNil(SchemaByID(m.s, newSchemaIDs[i]))
    THEN Fail(m, "ErrSnapshotSchemaNotFound")
    ELSE renameTablesCreate(
            createTable(m, WrapTableInfo(newSchemaIDs[i],
                                         Lower(Val(SchemaByID(m.s, newSchemaIDs[i])).Name),
                                         Val(job.BinlogInfo).FinishedTS, infos[i])),
            job, newSchemaIDs, i + 1)

\* one loop that drops and creates table after table, from index i on
RECURSIVE renameTablesEach(_, _, _)
renameTablesEach(m, job, i) ==
    IF i > Len(job.Args.oldTableIDs) \/ ~Ok(m) THEN m
    ELSE IF IsNil(SchemaByID(m.s, job.Args.newSchemaIDs[i]))
    THEN Fail(m, "ErrSnapshotSchemaNotFound")
    ELSE renameTablesEach(
            createTable(dropTable(m, job.Args.oldTableIDs[i]),
                        WrapTableInfo(job.Args.newSchemaIDs[i],
                                      Lower(Val(SchemaByID(m.s, job.Args.newSchemaIDs[i])).Name),
                                      Val(job.BinlogInfo).FinishedTS,
                                      Val(job.BinlogInfo).MultipleTableInfos[i])),
            job, i + 1)

\* renameTables as it would be in one phase: every table is created as soon as
\* it has been dropped
renameTablesOnePhase(m, job) ==
    IF Len(Val(job.BinlogInfo).MultipleTableInfos) < Len(job.Args.newTableNames)
    THEN Fail(m, "ErrInvalidDDLJob")
    ELSE renameTablesEach(m, job, 1)

\* schemaSnapshot.renameTables
renameTables(m, job) ==
    IF Len(Val(job.BinlogInfo).MultipleTableInfos) < Len(job.Args.newTableNames)
    THEN Fail(m, "ErrInvalidDDLJob")
    ELSE renameTablesCreate(renameTablesDrop(m, job.Args.oldTableIDs),
                            job, job.Args.newSchemaIDs, 1)

\* the closure getWrapTableInfo of handleDDL
getWrapTableInfo(job) ==
    WrapTableInfo(job.SchemaID, job.SchemaName, Val(job.BinlogInfo).FinishedTS,
                  Val(Val(job.BinlogInfo).TableInfo))

\* a DDL kind that reads job.BinlogInfo.TableInfo or DBInfo without a nil check
DerefsNil(job) ==
    \/ IsNil(job.BinlogInfo)
    \/ /\ job.Type \in {"ActionCreateSchema", "ActionModifySchemaCharsetAndCollate"}
       /\ IsNil(Val(job.BinlogInfo).DBInfo)
    \/ /\ job.Type \in {"ActionRenameTable", "ActionCreateTable", "ActionCreateView",
                        "ActionRecoverTable", "ActionTruncateTable",
                        "ActionTruncateTablePartition", "ActionAddTablePartition",
                        "ActionDropTablePartition"}
       /\ IsNil(Val(job.BinlogInfo).TableInfo)

\* the TruncateTable case as it would be without line 633
keepTruncateTableID(m, id) == m

\* handleDDL, line 633: s.truncateTableID[job.TableID] = struct{}{}
addTruncateTableID(m, id) ==
    IF ~Ok(m) THEN m ELSE [m EXCEPT !.s.truncateTableID = @ \cup {id}]

\* the switch of handleDDL, on the job whose schema name is filled
handleDDLSwitch(m, job) ==
    CASE job.Type = "ActionCreateSchema" ->
           createSchema(m, Val(Val(job.BinlogInfo).DBInfo))
      [] job.Type = "ActionModifySchemaCharsetAndCollate" ->
           replaceSchema(m, Val(Val(job.BinlogInfo).DBInfo))
      [] job.Type = "ActionDropSchema" ->
           dropSchema(m, job.SchemaID)
      [] job.Type = "ActionRenameTable" ->
           createTable(dropTable(m, job.TableID), getWrapTableInfo(job))
      [] job.Type = "ActionRenameTables" ->
           renameTables(m, job)
      [] job.Type \in {"ActionCreateTable", "ActionCreateView", "ActionRecoverTable"} ->
           createTable(m, getWrapTableInfo(job))
      [] job.Type \in {"ActionDropTable", "ActionDropView"} ->
           dropTable(m, job.TableID)
      [] job.Type = "ActionTruncateTable" ->
           addTruncateTableID(createTable(dropTable(m, job.TableID), getWrapTableInfo(job)),
                              job.TableID)
      [] job.Type \in {"ActionTruncateTablePartition", "ActionAddTablePartition",
                       "ActionDropTablePartition"} ->
           updatePartition(m, getWrapTableInfo(job))
      [] OTHER ->
           replaceTable(m, getWrapTableInfo(job))

KnownTypes ==
    {"ActionCreateSchema", "ActionModifySchemaCharsetAndCollate", "ActionDropSchema",
     "ActionRenameTable", "ActionRenameTables", "ActionCreateTable", "ActionCreateView",
     "ActionRecoverTable", "ActionDropTable", "ActionDropView", "ActionTruncateTable",
     "ActionTruncateTablePartition", "ActionAddTablePartition", "ActionDropTablePartition"}

\* handleDDL, line 655: s.currentTs = job.BinlogInfo.FinishedTS
setCurrentTs(m, ts) ==
    IF ~Ok(m) THEN m ELSE [m EXCEPT !.s.currentTs = ts]

\* handleDDL after FillSchemaName, f being what FillSchemaName has returned
handleDDLFilled(m, job, f) ==
    IF f.err # "nil" THEN Fail(m, f.err)
    ELSE IF job.Type \notin KnownTypes
            /\ (IsNil(job.BinlogInfo) \/ IsNil(Val(job.BinlogInfo).TableInfo))
    THEN m
    ELSE IF DerefsNil(f.job) THEN Fail(m, "panic")
    ELSE setCurrentTs(handleDDLSwitch(m, f.job), Val(job.BinlogInfo).FinishedTS)

\* schemaSnapshot.handleDDL
handleDDL(m, job) == handleDDLFilled(m, job, FillSchemaName(m.s, job))

(***************************************************************************)
(* The bootstrap catalog and newSchemaSnapshotFromMeta                     *)
(***************************************************************************)
SchemaIDs == {1, 2}
SchemaNameOf(id) == IF id = 1 THEN "a" ELSE "B"
Charsets == {"utf8", "latin1"}

\* timeta.Meta: ListDatabases and ListTables of the upstream at start-ts
Catalog ==
    [dbs |-> <<DBInfo(1, "a", "utf8"), DBInfo(2, "B", "utf8")>>,
     tables |-> [sid \in {1, 2} |->
                   IF sid = 1 THEN <<TableInfo(10, "t", Some(<<20, 21>>), TRUE),
                                     TableInfo(11, "u", Nil, FALSE)>>
                   ELSE <<>>]]

\* the inner loop of newSchemaSnapshotFromMeta over the tables of one schema
RECURSIVE metaAddTables(_, _, _, _)
metaAddTables(m, dbinfo, tableInfos, currentTs) ==
    IF tableInfos = <<>> THEN m
    ELSE LET tableInfo == WrapTableInfo(dbinfo.ID, dbinfo.Name, currentTs, Head(tableInfos))
             r == SliceAppend(m.h, m.s.tableInSchema[dbinfo.ID], tableInfo.ID,
                              <<m.self, dbinfo.ID>>)
         IN metaAddTables(
              [m EXCEPT
                 !.h = r.h,
                 !.s.tableInSchema[dbinfo.ID] = r.sl,
                 !.s.tables = MapPut(@, tableInfo.ID, tableInfo),
                 !.s.tableNameToID = MapPut(@, tableInfo.TableName, tableInfo.ID),
                 !.s.ineligibleTableID =
                     IF IsEligible(tableInfo, m.s.forceReplicate) THEN @
                     ELSE @ \cup {tableInfo.ID} \cup SeqRange(PartIDs(tableInfo)),
                 !.s.partitionTable = PutPartitions(@, tableInfo)],
              dbinfo, Tail(tableInfos), currentTs)

\* the outer loop of newSchemaSnapshotFromMeta over the schemas
RECURSIVE metaAddSchemas(_, _, _, _)
metaAddSchemas(m, meta, dbs, currentTs) ==
    IF dbs = <<>> THEN m
    ELSE LET db == Head(dbs)
             n == Len(meta.tables[db.ID])
             \* make([]int64, 0, len(tableInfos))
             m1 == [m EXCEPT
                      !.h = IF n = 0 THEN @ ELSE MapPut(@, <<m.self, db.ID>>, Zeros(n)),
                      !.s.tableInSchema =
                          MapPut(@, db.ID, Slice(IF n = 0 THEN NoArr ELSE <<m.self, db.ID>>, 0))]
         IN metaAddSchemas(metaAddTables(m1, db, meta.tables[db.ID], currentTs),
                           meta, Tail(dbs), currentTs)

newSchemaSnapshotFromMeta(meta, currentTs, forceReplicate, self) ==
    LET s0 == newEmptySchemaSnapshot(forceReplicate)
        s1 == [s0 EXCEPT
                 !.schemas = [id \in {meta.dbs[i].ID : i \in 1..Len(meta.dbs)} |->
                                CHOOSE db \in SeqRange(meta.dbs) : db.ID = id],
                 !.schemaNameToID = [nm \in {meta.dbs[i].Name : i \in 1..Len(meta.dbs)} |->
                                (CHOOSE db \in SeqRange(meta.dbs) : db.Name = nm).ID]]
        m == metaAddSchemas(Mach(s1, EmptyMap, self), meta, meta.dbs, currentTs)
    IN [m EXCEPT !.s.currentTs = currentTs]

(***************************************************************************)
(* DDL jobs                                                                *)
(***************************************************************************)
NoArgs ==
    [oldSchemaIDs |-> <<>>, newSchemaIDs |-> <<>>, newTableNames |-> <<>>,
     oldTableIDs |-> <<>>, oldSchemaNames |-> <<>>]

BinlogInfo(ts, db, ti, mti) ==
    Some([FinishedTS |-> ts, DBInfo |-> db, TableInfo |-> ti, MultipleTableInfos |-> mti])

Job(type, state, sid, tid, bi, args) ==
    [Type |-> type, State |-> state, SchemaID |-> sid, SchemaName |-> "",
     TableID |-> tid, BinlogInfo |-> bi, Args |-> args]

\* timodel.Job.IsDone, timodel.Job.IsSynced
IsDone(job) == job.State = "done"
IsSynced(job) == job.State = "synced"

FinishedTS(job) == Val(job.BinlogInfo).FinishedTS

(***************************************************************************)
(* schemaStorageImpl                                                       *)
(***************************************************************************)
VARIABLES
    store,          \* the schemaSnapshot objects in memory, by serial number
    arrays,         \* the backing arrays of their tableInSchema slices
    snaps,          \* schemaStorageImpl.snaps: serial numbers, oldest first
    gcTs,           \* schemaStorageImpl.gcTs
    resolvedTs,     \* schemaStorageImpl.resolvedTs
    forceReplicate, \* schemaStorageImpl.forceReplicate
    filter,         \* schemaStorageImpl.filter: Nil, or the DDL kinds it discards
    nextId,         \* the serial number of the next snapshot object
    held,           \* the snapshot a consumer obtained last (0: none)
    ret,            \* the last call that returned, with its result
    panicked,       \* the process has died on a runtime panic
    snapsMu,        \* schemaStorageImpl.snapsMu: "" or the thread holding it for writing
    threads         \* the position and the locals of every thread inside a call

vars == <<store, arrays, snaps, gcTs, resolvedTs, forceReplicate, filter, nextId,
          held, ret, panicked, snapsMu, threads>>

Ret(op, path, err, val) == [op |-> op, path |-> path, err |-> err, val |-> val]

\* a snapshot object as a reader sees it: the slices by their elements
ViewOf(s, h) ==
    [s EXCEPT !.tableInSchema = [sid \in DOMAIN s.tableInSchema |->
                                   SliceElems(h, s.tableInSchema[sid])]]
View(id) == ViewOf(store[id], arrays)

CurrentTs(i) == store[snaps[i]].currentTs

\* what the Go garbage collector keeps: the objects reachable from snaps and
\* from the consumers, and the arrays reachable from these
LiveStore(st, sn, refs) == Restrict(st, (DOMAIN st) \cap (SeqRange(sn) \cup refs))
LiveArrays(st, h) ==
    Restrict(h, (DOMAIN h) \cap
                UNION {{st[id].tableInSchema[sid].arr : sid \in DOMAIN st[id].tableInSchema}
                       : id \in DOMAIN st})

\* skipJob as it would be without the filter
skipJobByStateOnly(job) == ~IsSynced(job) /\ ~IsDone(job)

\* schemaStorageImpl.skipJob
skipJob(job) ==
    \/ ~IsNil(filter) /\ job.Type \in Val(filter)
    \/ ~IsSynced(job) /\ ~IsDone(job)

\* schemaStorageImpl.AdvanceResolvedTs run without interference
advanceResolvedTs(old, ts) == IF ts < old THEN old ELSE ts

\* the foregone test as it would be with < for <=
foregoneStrict(job) == FinishedTS(job) < CurrentTs(Len(snaps))

\* HandleDDLJob, line 833: the job is not newer than the last snapshot
foregone(job) == FinishedTS(job) <= CurrentTs(Len(snaps))

\* the result of HandleDDLJob's critical section: the path taken, the error,
\* the new snaps, store and arrays, and whether a failed application had
\* changed its clone before it failed
Locked(path, err, sn, st, h, partial) ==
    [path |-> path, err |-> err, snaps |-> sn, store |-> st, arrays |-> h,
     partial |-> partial]

\* HandleDDLJob, line 853: the snapshot m.s joins the history
appendSnap(m) ==
    Locked("applied", "nil", Append(snaps, nextId), MapPut(store, nextId, m.s),
           LiveArrays(MapPut(store, nextId, m.s), m.h), FALSE)

\* the failure path as it would be if the clone were appended all the same
dropSnapAppending(m, partial) ==
    Locked("failed", m.err, Append(snaps, nextId), MapPut(store, nextId, m.s),
           LiveArrays(MapPut(store, nextId, m.s), m.h), partial)

\* HandleDDLJob, lines 843-848: handleDDL has failed, the clone is dropped
dropSnap(m, partial) ==
    Locked("failed", m.err, snaps, store, LiveArrays(store, m.h), partial)

\* HandleDDLJob, lines 843-853: m1 is the snapshot m0 after handleDDL
endHandleDDL(m0, m1) ==
    IF ~Ok(m1) THEN dropSnap(m1, ViewOf(m1.s, m1.h) # ViewOf(m0.s, m0.h))
    ELSE appendSnap(m1)

\* HandleDDLJob, lines 843-853, on the new snapshot m0
applyToSnap(m0, job) == endHandleDDL(m0, handleDDL(m0, job))

\* the body of schemaStorageImpl.HandleDDLJob under snapsMu, up to the append
handleDDLJobLocked(job) ==
    IF IsNil(job.BinlogInfo) THEN Locked("failed", "panic", snaps, store, arrays, FALSE)
    ELSE IF Len(snaps) > 0 /\ foregone(job)
    THEN Locked("foregone", "nil", snaps, store, arrays, FALSE)
    ELSE applyToSnap(IF Len(snaps) > 0
                     THEN Clone(store[snaps[Len(snaps)]], arrays, nextId)
                     ELSE Mach(newEmptySchemaSnapshot(forceReplicate), arrays, nextId),
                     job)

\* schemaStorageImpl.HandleDDLJob
HandleDDLJob(job) ==
    /\ ~panicked /\ snapsMu = "" /\ nextId <= MaxSnaps
    /\ IF skipJob(job)
       THEN /\ IF IsNil(job.BinlogInfo)
               THEN /\ panicked' = TRUE
                    /\ ret' = Ret("HandleDDLJob", "skip", "panic", 0)
                    /\ UNCHANGED resolvedTs
               ELSE /\ resolvedTs' = advanceResolvedTs(resolvedTs, FinishedTS(job))
                    /\ ret' = Ret("HandleDDLJob", "skip", "nil", 0)
                    /\ UNCHANGED panicked
            /\ UNCHANGED <<store, arrays, snaps, nextId>>
       ELSE \E r \in {handleDDLJobLocked(job)} :
               /\ snaps' = r.snaps
               /\ store' = r.store
               /\ arrays' = r.arrays
               /\ nextId' = IF r.path = "applied" THEN nextId + 1 ELSE nextId
               /\ resolvedTs' = IF r.path = "applied"
                                THEN advanceResolvedTs(resolvedTs, FinishedTS(job))
                                ELSE resolvedTs
               /\ panicked' = (r.err = "panic")
               /\ ret' = Ret("HandleDDLJob", r.path, r.err, IF r.partial THEN 1 ELSE 0)
    /\ UNCHANGED <<gcTs, forceReplicate, filter, held, snapsMu, threads>>

\* schemaStorageImpl.AdvanceResolvedTs
AdvanceResolvedTs(ts) ==
    /\ ~panicked /\ snapsMu = ""
    /\ resolvedTs' = advanceResolvedTs(resolvedTs, ts)
    /\ ret' = Ret("AdvanceResolvedTs", "", "nil", 0)
    /\ UNCHANGED <<store, arrays, snaps, gcTs, forceReplicate, filter, nextId, held,
                   panicked, snapsMu, threads>>

\* the binary search as it would be with the predicate currentTs >= ts
RECURSIVE sortSearchGE(_, _, _)
sortSearchGE(lo, hi, ts) ==
    IF lo >= hi THEN lo
    ELSE LET mid == (lo + hi) \div 2
         IN IF ~(store[snaps[mid + 1]].currentTs >= ts) THEN sortSearchGE(mid + 1, hi, ts)
            ELSE sortSearchGE(lo, mid, ts)

\* sort.Search(len(s.snaps), func(i) { return s.snaps[i].currentTs > ts }),
\* as a 1-based index: the binary search, lo and hi being its bounds
RECURSIVE sortSearch(_, _, _)
sortSearch(lo, hi, ts) ==
    IF lo >= hi THEN lo
    ELSE LET mid == (lo + hi) \div 2
         IN IF ~(CurrentTs(mid + 1) > ts) THEN sortSearch(mid + 1, hi, ts)
            ELSE sortSearch(lo, mid, ts)

\* the lookup of getSnapshot under the read lock: the serial found, 0 when none
lookup(ts) ==
    LET i == sortSearch(0, Len(snaps), ts)
    IN IF i <= 0 THEN 0 ELSE snaps[i]

\* schemaStorageImpl.getSnapshot run without interference: error and snapshot
getSnapshot(ts) ==
    IF ts < gcTs THEN [err |-> "ErrSchemaStorageGCed", snap |-> 0]
    ELSE IF ts > resolvedTs THEN [err |-> "ErrSchemaStorageUnresolved", snap |-> 0]
    ELSE IF lookup(ts) = 0 THEN [err |-> "ErrSchemaSnapshotNotFound", snap |-> 0]
    ELSE [err |-> "nil", snap |-> lookup(ts)]

\* one attempt of schemaStorageImpl.GetSnapshot
GetSnapshot(ts) ==
    /\ ~panicked /\ snapsMu = ""
    /\ \E r \in {getSnapshot(ts)} :
          /\ ret' = Ret("GetSnapshot", "", r.err, r.snap)
          /\ held' = IF r.err = "nil" THEN r.snap ELSE held
    /\ store' = LiveStore(store, snaps, {held'})
    /\ arrays' = LiveArrays(store', arrays)
    /\ UNCHANGED <<snaps, gcTs, resolvedTs, forceReplicate, filter, nextId,
                   panicked, snapsMu, threads>>

\* schemaStorageImpl.GetLastSnapshot
GetLastSnapshot ==
    /\ ~panicked /\ snapsMu = ""
    /\ held' = snaps[Len(snaps)]
    /\ ret' = Ret("GetLastSnapshot", "", "nil", held')
    /\ store' = LiveStore(store, snaps, {held'})
    /\ arrays' = LiveArrays(store', arrays)
    /\ UNCHANGED <<snaps, gcTs, resolvedTs, forceReplicate, filter, nextId,
                   panicked, snapsMu, threads>>

\* the loop of DoGC as it would be with the test currentTs >= ts
RECURSIVE gcStartIdxGE(_, _, _)
gcStartIdxGE(i, startIdx, ts) ==
    IF i >= Len(snaps) THEN startIdx
    ELSE IF store[snaps[i + 1]].currentTs >= ts THEN startIdx
    ELSE gcStartIdxGE(i + 1, i, ts)

\* the first loop of DoGC: the 0-based startIdx
RECURSIVE gcStartIdx(_, _, _)
gcStartIdx(i, startIdx, ts) ==
    IF i >= Len(snaps) THEN startIdx
    ELSE IF CurrentTs(i + 1) > ts THEN startIdx
    ELSE gcStartIdx(i + 1, i, ts)

\* schemaStorageImpl.DoGC run under snapsMu: new snaps, new gcTs, returned ts
doGC(ts) ==
    LET startIdx == gcStartIdx(0, 0, ts)
    IN IF startIdx = 0
       THEN [snaps |-> snaps, gcTs |-> gcTs, lastSchemaTs |-> CurrentTs(1)]
       ELSE [snaps |-> SubSeq(snaps, startIdx + 1, Len(snaps)),
             gcTs |-> CurrentTs(startIdx + 1),
             lastSchemaTs |-> CurrentTs(startIdx + 1)]

\* schemaStorageImpl.DoGC
DoGC(ts) ==
    /\ ~panicked /\ snapsMu = ""
    /\ \E r \in {doGC(ts)} :
          /\ snaps' = r.snaps
          /\ gcTs' = r.gcTs
          /\ ret' = Ret("DoGC", "", "nil", r.lastSchemaTs)
    /\ store' = LiveStore(store, snaps', {held})
    /\ arrays' = LiveArrays(store', arrays)
    /\ UNCHANGED <<resolvedTs, forceReplicate, filter, nextId, held,
                   panicked, snapsMu, threads>>

(***************************************************************************)
(* The DDL jobs the puller delivers                                        *)
(***************************************************************************)
JobTs == 1..MaxTs

SchemaJob(type, st, ts, db) ==
    Job(type, st, db.ID, 0, BinlogInfo(ts, Some(db), Nil, <<>>), NoArgs)

\* a job on the table tid of schema sid; ti is Nil or the new table record
TableJob(type, st, ts, sid, tid, ti) ==
    Job(type, st, sid, tid, BinlogInfo(ts, Nil, ti, <<>>), NoArgs)

\* RenameTables of the tables ids (in this order) of schema sid, with the new
\* table records tis and the new names nms
RenameTablesJob(st, ts, sid, ids, nms, tis) ==
    Job("ActionRenameTables", st, 0, 0, BinlogInfo(ts, Nil, Nil, tis),
        [oldSchemaIDs |-> [i \in 1..Len(ids) |-> sid],
         newSchemaIDs |-> [i \in 1..Len(ids) |-> sid],
         newTableNames |-> nms,
         oldTableIDs |-> ids,
         oldSchemaNames |-> [i \in 1..Len(ids) |-> SchemaNameOf(sid)]])

\* the jobs delivered to the storage with commit timestamp ts: every DDL kind
\* in state done, and jobs in the states synced and cancelled
JobsAt(ts) ==
    {SchemaJob("ActionCreateSchema", "done", ts, DBInfo(2, "B", "utf8")),
     SchemaJob("ActionCreateSchema", "cancelled", ts, DBInfo(1, "a", "utf8")),
     SchemaJob("ActionModifySchemaCharsetAndCollate", "done", ts, DBInfo(1, "a", "latin1")),
     SchemaJob("ActionDropSchema", "done", ts, DBInfo(1, "a", "utf8")),
     SchemaJob("ActionDropSchema", "done", ts, DBInfo(3, "c", "utf8")),
     TableJob("ActionCreateTable", "done", ts, 2, 12, Some(TableInfo(12, "t", Nil, FALSE))),
     TableJob("ActionDropTable", "done", ts, 1, 10, Nil),
     TableJob("ActionDropTable", "synced", ts, 1, 11, Nil),
     TableJob("ActionRenameTable", "done", ts, 1, 10,
              Some(TableInfo(10, "v", Some(<<20, 21>>), TRUE))),
     TableJob("ActionRenameTable", "done", ts, 1, 10,
              Some(TableInfo(11, "v", Nil, TRUE))),
     TableJob("ActionTruncateTable", "done", ts, 1, 11, Some(TableInfo(12, "u", Nil, FALSE))),
     TableJob("ActionDropTablePartition", "done", ts, 1, 10,
              Some(TableInfo(10, "t", Some(<<20>>), TRUE))),
     TableJob("ActionAddColumn", "done", ts, 1, 11, Some(TableInfo(11, "u", Nil, TRUE))),
     TableJob("ActionAddColumn", "done", ts, 1, 0, Nil),
     RenameTablesJob("done", ts, 1, <<10, 11>>, <<"u", "t">>,
                     <<TableInfo(10, "u", Some(<<20, 21>>), TRUE),
                       TableInfo(11, "t", Nil, FALSE)>>),
     RenameTablesJob("done", ts, 1, <<11, 12>>, <<"w", "u">>,
                     <<TableInfo(11, "w", Nil, FALSE), TableInfo(12, "u", Nil, FALSE)>>),
     RenameTablesJob("done", ts, 1, <<11>>, <<"w", "u">>, <<TableInfo(11, "w", Nil, FALSE)>>)}

Jobs ==
    UNION {JobsAt(ts) : ts \in JobTs}
    \cup {Job("ActionDropTable", "done", 1, 10, Nil, NoArgs),
          Job("ActionAddColumn", "done", 1, 11, Nil, NoArgs)}

(***************************************************************************)
(* The storage used by one caller at a time                                *)
(***************************************************************************)
\* NewSchemaStorage
NewSchemaStorage(meta, startTs, flt, force) ==
    LET m == IF IsNil(meta) THEN Mach(newEmptySchemaSnapshot(force), EmptyMap, 1)
             ELSE newSchemaSnapshotFromMeta(Val(meta), startTs, force, 1)
    IN /\ store = (1 :> m.s)
       /\ arrays = m.h
       /\ snaps = <<1>>
       /\ gcTs = 0
       /\ resolvedTs = startTs
       /\ forceReplicate = force
       /\ filter = flt
       /\ nextId = 2

\* the threads: the DDL puller, a caller of AdvanceResolvedTs, the GC loop and
\* the consumers
Consumers == {"c1"}
Threads == {"ddl", "adv", "gc"} \cup Consumers
\* a thread: its position pc, the ts argument of its call, the resolvedTs it
\* loaded (old), and the value and the error its last call returned
Local(pc, ts, old, val, err) == [pc |-> pc, ts |-> ts, old |-> old, val |-> val, err |-> err]
Idle == Local("idle", 0, 0, 0, "nil")
NoThreads == [t \in Threads |-> Idle]

\* the storages built: meta, startTs, filter, forceReplicate
StorageConfigs ==
    {<<Nil, 1, Some({"ActionDropSchema"}), TRUE>>,
     <<Some(Catalog), 1, Nil, FALSE>>}

Init ==
    /\ \E c \in StorageConfigs : NewSchemaStorage(c[1], c[2], c[3], c[4])
    /\ held = 0
    /\ ret = Ret("NewSchemaStorage", "", "nil", 0)
    /\ panicked = FALSE
    /\ snapsMu = ""
    /\ threads = NoThreads

(***************************************************************************)
(* The storage used by concurrent threads: every access to resolvedTs and  *)
(* gcTs and every critical section of snapsMu is one step.                 *)
(***************************************************************************)
\* the snapshot objects the consumers hold
Refs(th) == {th[c].val : c \in Consumers} \cup {held}

\* "last": the consumer has returned from GetLastSnapshot
AtRest(t) == threads[t].pc \in {"idle", "done", "last"}

\* HandleDDLJob as it would be if snapsMu were released before AdvanceResolvedTs
HandleDDLJobBeginUnlocking(job) ==
    /\ ~panicked /\ AtRest("ddl") /\ nextId <= MaxSnaps
    /\ IF skipJob(job)
       THEN /\ threads' = [threads EXCEPT !["ddl"] = Local("load", FinishedTS(job), 0, 0, "nil")]
            /\ UNCHANGED <<store, arrays, snaps, nextId, snapsMu>>
       ELSE /\ snapsMu = ""
            /\ \E r \in {handleDDLJobLocked(job)} :
                  /\ snaps' = r.snaps
                  /\ store' = r.store
                  /\ arrays' = r.arrays
                  /\ nextId' = IF r.path = "applied" THEN nextId + 1 ELSE nextId
                  /\ snapsMu' = ""
                  /\ threads' = [threads EXCEPT !["ddl"] =
                                   IF r.path = "applied"
                                   THEN Local("load", FinishedTS(job), 0, 0, "nil")
                                   ELSE Local("done", 0, 0, 0, r.err)]
    /\ UNCHANGED <<gcTs, resolvedTs, forceReplicate, filter, held, ret, panicked>>

\* HandleDDLJob up to the append: skipJob, and the critical section of
\* lines 828-853; AdvanceResolvedTs follows with snapsMu still held
HandleDDLJobBegin(job) ==
    /\ ~panicked /\ AtRest("ddl") /\ nextId <= MaxSnaps
    /\ IF skipJob(job)
       THEN /\ threads' = [threads EXCEPT !["ddl"] = Local("load", FinishedTS(job), 0, 0, "nil")]
            /\ UNCHANGED <<store, arrays, snaps, nextId, snapsMu>>
       ELSE /\ snapsMu = ""
            /\ \E r \in {handleDDLJobLocked(job)} :
                  /\ snaps' = r.snaps
                  /\ store' = r.store
                  /\ arrays' = r.arrays
                  /\ nextId' = IF r.path = "applied" THEN nextId + 1 ELSE nextId
                  /\ snapsMu' = IF r.path = "applied" THEN "ddl" ELSE ""
                  /\ threads' = [threads EXCEPT !["ddl"] =
                                   IF r.path = "applied"
                                   THEN Local("load", FinishedTS(job), 0, 0, "nil")
                                   ELSE Local("done", 0, 0, 0, r.err)]
    /\ UNCHANGED <<gcTs, resolvedTs, forceReplicate, filter, held, ret, panicked>>

\* a call of AdvanceResolvedTs(ts) by the thread adv
AdvanceResolvedTsCall(ts) ==
    /\ ~panicked /\ AtRest("adv")
    /\ threads' = [threads EXCEPT !["adv"] = Local("load", ts, 0, 0, "nil")]
    /\ UNCHANGED <<store, arrays, snaps, gcTs, resolvedTs, forceReplicate, filter, nextId,
                   held, ret, panicked, snapsMu>>

\* AdvanceResolvedTs, line 862-865: load resolvedTs, return when ts is below it
AdvanceResolvedTsLoad(t) ==
    /\ ~panicked /\ t \in {"ddl", "adv"} /\ threads[t].pc = "load"
    /\ IF threads[t].ts < resolvedTs
       THEN /\ threads' = [threads EXCEPT ![t] = Local("done", 0, 0, 0, "nil")]
            /\ snapsMu' = IF snapsMu = t THEN "" ELSE snapsMu
       ELSE /\ threads' = [threads EXCEPT ![t] = Local("cas", @.ts, resolvedTs, 0, "nil")]
            /\ UNCHANGED snapsMu
    /\ UNCHANGED <<store, arrays, snaps, gcTs, resolvedTs, forceReplicate, filter, nextId,
                   held, ret, panicked>>

\* line 866 as it would be with a plain store for the compare-and-swap
AdvanceResolvedTsStore(t) ==
    /\ ~panicked /\ t \in {"ddl", "adv"} /\ threads[t].pc = "cas"
    /\ resolvedTs' = threads[t].ts
    /\ threads' = [threads EXCEPT ![t] = Local("done", 0, 0, 0, "nil")]
    /\ snapsMu' = IF snapsMu = t THEN "" ELSE snapsMu
    /\ UNCHANGED <<store, arrays, snaps, gcTs, forceReplicate, filter, nextId,
                   held, ret, panicked>>

\* AdvanceResolvedTs, line 866: the compare-and-swap, and the return or the retry
AdvanceResolvedTsCAS(t) ==
    /\ ~panicked /\ t \in {"ddl", "adv"} /\ threads[t].pc = "cas"
    /\ IF resolvedTs = threads[t].old
       THEN /\ resolvedTs' = threads[t].ts
            /\ threads' = [threads EXCEPT ![t] = Local("done", 0, 0, 0, "nil")]
            /\ snapsMu' = IF snapsMu = t THEN "" ELSE snapsMu
       ELSE /\ threads' = [threads EXCEPT ![t] = Local("load", @.ts, 0, 0, "nil")]
            /\ UNCHANGED <<resolvedTs, snapsMu>>
    /\ UNCHANGED <<store, arrays, snaps, gcTs, forceReplicate, filter, nextId,
                   held, ret, panicked>>

\* DoGC, lines 877-900: the critical section up to the new snaps; the call
\* returns at line 887 when nothing is to be removed
DoGCLock(ts) ==
    /\ ~panicked /\ AtRest("gc") /\ snapsMu = ""
    /\ \E r \in {doGC(ts)} :
          /\ snaps' = r.snaps
          /\ IF r.snaps = snaps
             THEN /\ threads' = [threads EXCEPT !["gc"] = Local("done", 0, 0, r.lastSchemaTs, "nil")]
                  /\ UNCHANGED snapsMu
             ELSE /\ threads' = [threads EXCEPT !["gc"] = Local("store", 0, 0, r.lastSchemaTs, "nil")]
                  /\ snapsMu' = "gc"
    /\ store' = LiveStore(store, snaps', Refs(threads))
    /\ arrays' = LiveArrays(store', arrays)
    /\ UNCHANGED <<gcTs, resolvedTs, forceReplicate, filter, nextId, held, ret, panicked>>

\* DoGC, lines 902-904: store gcTs, unlock and return
DoGCStore ==
    /\ ~panicked /\ threads["gc"].pc = "store"
    /\ gcTs' = threads["gc"].val
    /\ snapsMu' = ""
    /\ threads' = [threads EXCEPT !["gc"].pc = "done"]
    /\ UNCHANGED <<store, arrays, snaps, resolvedTs, forceReplicate, filter, nextId,
                   held, ret, panicked>>

\* a call of GetSnapshot(ctx, ts) by the consumer c; the snapshot it held is dropped
GetSnapshotCall(c, ts) ==
    /\ ~panicked /\ c \in Consumers /\ AtRest(c)
    /\ threads' = [threads EXCEPT ![c] = Local("loadGcTs", ts, 0, 0, "nil")]
    /\ store' = LiveStore(store, snaps, Refs(threads'))
    /\ arrays' = LiveArrays(store', arrays)
    /\ UNCHANGED <<snaps, gcTs, resolvedTs, forceReplicate, filter, nextId,
                   held, ret, panicked, snapsMu>>

\* lines 763-767 as they would be with ErrSchemaStorageGCed taken as retryable
getSnapshotLoadGcTsRetrying(c) ==
    /\ ~panicked /\ c \in Consumers /\ threads[c].pc = "loadGcTs"
    /\ threads' = [threads EXCEPT ![c] =
                     IF @.ts < gcTs THEN Local("backoff", @.ts, 0, 0, "ErrSchemaStorageGCed")
                     ELSE Local("loadResolvedTs", @.ts, 0, 0, "nil")]
    /\ UNCHANGED <<store, arrays, snaps, gcTs, resolvedTs, forceReplicate, filter, nextId,
                   held, ret, panicked, snapsMu>>

\* getSnapshot, lines 763-767
getSnapshotLoadGcTs(c) ==
    /\ ~panicked /\ c \in Consumers /\ threads[c].pc = "loadGcTs"
    /\ threads' = [threads EXCEPT ![c] =
                     IF @.ts < gcTs THEN Local("done", @.ts, 0, 0, "ErrSchemaStorageGCed")
                     ELSE Local("loadResolvedTs", @.ts, 0, 0, "nil")]
    /\ UNCHANGED <<store, arrays, snaps, gcTs, resolvedTs, forceReplicate, filter, nextId,
                   held, ret, panicked, snapsMu>>

\* lines 768-772 as they would be with the test ts >= resolvedTs
getSnapshotLoadResolvedTsGE(c) ==
    /\ ~panicked /\ c \in Consumers /\ threads[c].pc = "loadResolvedTs"
    /\ threads' = [threads EXCEPT ![c] =
                     IF @.ts >= resolvedTs
                     THEN Local("backoff", @.ts, 0, 0, "ErrSchemaStorageUnresolved")
                     ELSE Local("lookup", @.ts, 0, 0, "nil")]
    /\ UNCHANGED <<store, arrays, snaps, gcTs, resolvedTs, forceReplicate, filter, nextId,
                   held, ret, panicked, snapsMu>>

\* getSnapshot, lines 768-772; on ErrSchemaStorageUnresolved retry.Do backs off
getSnapshotLoadResolvedTs(c) ==
    /\ ~panicked /\ c \in Consumers /\ threads[c].pc = "loadResolvedTs"
    /\ threads' = [threads EXCEPT ![c] =
                     IF @.ts > resolvedTs
                     THEN Local("backoff", @.ts, 0, 0, "ErrSchemaStorageUnresolved")
                     ELSE Local("lookup", @.ts, 0, 0, "nil")]
    /\ UNCHANGED <<store, arrays, snaps, gcTs, resolvedTs, forceReplicate, filter, nextId,
                   held, ret, panicked, snapsMu>>

\* getSnapshot, lines 773-782: the lookup under the read lock
getSnapshotLookup(c) ==
    /\ ~panicked /\ c \in Consumers /\ threads[c].pc = "lookup" /\ snapsMu = ""
    /\ threads' = [threads EXCEPT ![c] =
                     IF lookup(@.ts) = 0
                     THEN Local("done", @.ts, 0, 0, "ErrSchemaSnapshotNotFound")
                     ELSE Local("done", @.ts, 0, lookup(@.ts), "nil")]
    /\ UNCHANGED <<store, arrays, snaps, gcTs, resolvedTs, forceReplicate, filter, nextId,
                   held, ret, panicked, snapsMu>>

\* GetSnapshot: the next attempt of retry.Do after the backoff
GetSnapshotRetry(c) ==
    /\ ~panicked /\ c \in Consumers /\ threads[c].pc = "backoff"
    /\ threads' = [threads EXCEPT ![c] = Local("loadGcTs", @.ts, 0, 0, "nil")]
    /\ UNCHANGED <<store, arrays, snaps, gcTs, resolvedTs, forceReplicate, filter, nextId,
                   held, ret, panicked, snapsMu>>

\* the cancellation as it would be if the call handed out the last snapshot
GetSnapshotCancelWithSnap(c) ==
    /\ ~panicked /\ c \in Consumers /\ threads[c].pc = "backoff"
    /\ threads' = [threads EXCEPT ![c] =
                     Local("done", @.ts, 0, snaps[Len(snaps)], "context canceled")]
    /\ UNCHANGED <<store, arrays, snaps, gcTs, resolvedTs, forceReplicate, filter, nextId,
                   held, ret, panicked, snapsMu>>

\* GetSnapshot: ctx is cancelled during the backoff
GetSnapshotCancel(c) ==
    /\ ~panicked /\ c \in Consumers /\ threads[c].pc = "backoff"
    /\ threads' = [threads EXCEPT ![c] = Local("done", @.ts, 0, 0, "context canceled")]
    /\ UNCHANGED <<store, arrays, snaps, gcTs, resolvedTs, forceReplicate, filter, nextId,
                   held, ret, panicked, snapsMu>>

\* GetLastSnapshot as it would be if it returned s.snaps[0]
GetLastSnapshotCallFirst(c) ==
    /\ ~panicked /\ c \in Consumers /\ AtRest(c) /\ snapsMu = ""
    /\ threads' = [threads EXCEPT ![c] = Local("last", 0, 0, snaps[1], "nil")]
    /\ store' = LiveStore(store, snaps, Refs(threads'))
    /\ arrays' = LiveArrays(store', arrays)
    /\ UNCHANGED <<snaps, gcTs, resolvedTs, forceReplicate, filter, nextId,
                   held, ret, panicked, snapsMu>>

\* a call of GetLastSnapshot by the consumer c, lines 816-820: under the read
\* lock; the snapshot the consumer held is dropped
GetLastSnapshotCall(c) ==
    /\ ~panicked /\ c \in Consumers /\ AtRest(c) /\ snapsMu = ""
    /\ threads' = [threads EXCEPT ![c] = Local("last", 0, 0, snaps[Len(snaps)], "nil")]
    /\ store' = LiveStore(store, snaps, Refs(threads'))
    /\ arrays' = LiveArrays(store', arrays)
    /\ UNCHANGED <<snaps, gcTs, resolvedTs, forceReplicate, filter, nextId,
                   held, ret, panicked, snapsMu>>

\* the jobs delivered while other threads run
ConcJobs ==
    UNION {{SchemaJob("ActionCreateSchema", "cancelled", ts, DBInfo(1, "a", "utf8")),
            TableJob("ActionDropTable", "done", ts, 1, 10, Nil),
            TableJob("ActionRenameTable", "done", ts, 1, 10,
                     Some(TableInfo(11, "v", Nil, TRUE))),
            TableJob("ActionAddColumn", "done", ts, 1, 0, Nil)} : ts \in JobTs}

InitConc ==
    /\ NewSchemaStorage(Some(Catalog), 1, Nil, FALSE)
    /\ held = 0
    /\ ret = Ret("NewSchemaStorage", "", "nil", 0)
    /\ panicked = FALSE
    /\ snapsMu = ""
    /\ threads = NoThreads

NextConc ==
    \/ \E job \in ConcJobs : HandleDDLJobBegin(job)
    \/ \E ts \in Ts : AdvanceResolvedTsCall(ts)
    \/ \E t \in {"ddl", "adv"} : AdvanceResolvedTsLoad(t)
    \/ \E t \in {"ddl", "adv"} : AdvanceResolvedTsCAS(t)
    \/ \E ts \in Ts : DoGCLock(ts)
    \/ DoGCStore
    \/ \E c \in Consumers, ts \in Ts : GetSnapshotCall(c, ts)
    \/ \E c \in Consumers : getSnapshotLoadGcTs(c)
    \/ \E c \in Consumers : getSnapshotLoadResolvedTs(c)
    \/ \E c \in Consumers : getSnapshotLookup(c)
    \/ \E c \in Consumers : GetSnapshotRetry(c)
    \/ \E c \in Consumers : GetSnapshotCancel(c)
    \/ \E c \in Consumers : GetLastSnapshotCall(c)

SpecConc == InitConc /\ [][NextConc]_vars

\* the concurrent storage under fair scheduling: a goroutine inside a call
\* takes its next step, and a reader waiting for snapsMu gets it once the
\* writers that hold it have returned; cancellation and new calls are not forced
Fairness ==
    /\ \A c \in Consumers :
          /\ WF_vars(getSnapshotLoadGcTs(c))
          /\ WF_vars(getSnapshotLoadResolvedTs(c))
          /\ SF_vars(getSnapshotLookup(c))
          /\ WF_vars(GetSnapshotRetry(c))
    /\ \A t \in {"ddl", "adv"} :
          /\ WF_vars(AdvanceResolvedTsLoad(t))
          /\ WF_vars(AdvanceResolvedTsCAS(t))
    /\ WF_vars(DoGCStore)

SpecLive == InitConc /\ [][NextConc]_vars /\ Fairness

(***************************************************************************)
(* The storage fed by the upstream's DDL history: from the bootstrap       *)
(* catalog at start-ts 0, the jobs the upstream can emit in the current    *)
(* schema (LegalDDL), the jobs the storage has to reject (FaultyJobs), and *)
(* a reader of the latest snapshot.                                        *)
(***************************************************************************)
\* the latest snapshot of the history
LastSnap == store[snaps[Len(snaps)]]

\* RenameTables of the tables ids, the i-th into schema newSids[i]
RenameTablesJobTo(st, ts, oldSids, newSids, ids, nms, tis) ==
    Job("ActionRenameTables", st, 0, 0, BinlogInfo(ts, Nil, Nil, tis),
        [oldSchemaIDs |-> oldSids,
         newSchemaIDs |-> newSids,
         newTableNames |-> nms,
         oldTableIDs |-> ids,
         oldSchemaNames |-> [i \in 1..Len(oldSids) |-> SchemaNameOf(oldSids[i])]])

\* the DDL statements of the upstream with commit timestamp ts
DDLJobsAt(ts) ==
    {SchemaJob("ActionCreateSchema", "done", ts, DBInfo(3, "c", "utf8")),
     SchemaJob("ActionModifySchemaCharsetAndCollate", "done", ts, DBInfo(2, "B", "latin1")),
     SchemaJob("ActionDropSchema", "done", ts, DBInfo(1, "a", "utf8")),
     TableJob("ActionCreateTable", "done", ts, 2, 12, Some(TableInfo(12, "w", Some(<<22>>), FALSE))),
     TableJob("ActionDropTable", "done", ts, 1, 10, Nil),
     TableJob("ActionDropTable", "done", ts, 2, 10, Nil),
     TableJob("ActionDropTable", "done", ts, 1, 11, Nil),
     TableJob("ActionRenameTable", "done", ts, 1, 10,
              Some(TableInfo(10, "v", Some(<<20, 21>>), TRUE))),
     TableJob("ActionRenameTable", "done", ts, 2, 10,
              Some(TableInfo(10, "t", Some(<<20, 21>>), TRUE))),
     TableJob("ActionTruncateTable", "done", ts, 1, 10,
              Some(TableInfo(12, "t", Some(<<22, 23>>), TRUE))),
     TableJob("ActionTruncateTable", "done", ts, 1, 11, Some(TableInfo(12, "u", Nil, FALSE))),
     TableJob("ActionAddTablePartition", "done", ts, 1, 10,
              Some(TableInfo(10, "t", Some(<<20, 21, 22>>), TRUE))),
     TableJob("ActionDropTablePartition", "done", ts, 1, 10,
              Some(TableInfo(10, "t", Some(<<20>>), TRUE))),
     TableJob("ActionTruncateTablePartition", "done", ts, 1, 10,
              Some(TableInfo(10, "t", Some(<<20, 23>>), TRUE))),
     TableJob("ActionAddColumn", "done", ts, 1, 11, Some(TableInfo(11, "u", Nil, TRUE))),
     TableJob("ActionAddColumn", "done", ts, 2, 10,
              Some(TableInfo(10, "t", Some(<<20, 21>>), TRUE))),
     TableJob("ActionDropPrimaryKey", "done", ts, 1, 10,
              Some(TableInfo(10, "t", Some(<<20, 21>>), FALSE))),
     TableJob("ActionExchangeTablePartition", "done", ts, 1, 10,
              Some(TableInfo(10, "t", Some(<<20, 22>>), TRUE))),
     RenameTablesJobTo("done", ts, <<1, 1>>, <<1, 1>>, <<10, 11>>, <<"u", "t">>,
                       <<TableInfo(10, "u", Some(<<20, 21>>), TRUE),
                         TableInfo(11, "t", Nil, FALSE)>>),
     RenameTablesJobTo("done", ts, <<1, 1>>, <<2, 1>>, <<10, 11>>, <<"t", "w">>,
                       <<TableInfo(10, "t", Some(<<20, 21>>), TRUE),
                         TableInfo(11, "w", Nil, FALSE)>>)}

DDLJobs == UNION {DDLJobsAt(ts) : ts \in JobTs}

\* an id the upstream has not handed out in the snapshot s
FreshID(s, id) ==
    id \notin (DOMAIN s.tables) \cup (DOMAIN s.partitionTable) \cup s.truncateTableID

\* no table of schema sid other than those of `except` has the name `name`
NameFree(s, sid, name, except) ==
    \A id \in (DOMAIN s.tables) \ except :
        ~(s.tables[id].SchemaID = sid /\ s.tables[id].TableName.Table = name)

\* the partition ids of the new record ti that its table `old` has not
NewPartIDs(old, ti) == SeqRange(PartIDs(ti)) \ SeqRange(PartIDs(old))

\* a job on the table job.TableID that keeps its id, schema and name
SameTable(s, job, ti) ==
    /\ job.TableID \in DOMAIN s.tables
    /\ ti.ID = job.TableID
    /\ s.tables[job.TableID].SchemaID = job.SchemaID
    /\ s.tables[job.TableID].TableName.Table = ti.Name
    /\ IsNil(ti.Partition) = IsNil(s.tables[job.TableID].Partition)
    /\ \A p \in NewPartIDs(s.tables[job.TableID], ti) : FreshID(s, p)

\* the i-th rename of a RenameTables job is one the upstream can emit
LegalRename(s, job, i) ==
    /\ job.Args.oldTableIDs[i] \in DOMAIN s.tables
    /\ s.tables[job.Args.oldTableIDs[i]].SchemaID = job.Args.oldSchemaIDs[i]
    /\ job.Args.newSchemaIDs[i] \in DOMAIN s.schemas
    /\ Val(job.BinlogInfo).MultipleTableInfos[i].ID = job.Args.oldTableIDs[i]
    /\ Val(job.BinlogInfo).MultipleTableInfos[i].Name = job.Args.newTableNames[i]
    /\ Val(job.BinlogInfo).MultipleTableInfos[i].Partition
         = s.tables[job.Args.oldTableIDs[i]].Partition
    /\ NameFree(s, job.Args.newSchemaIDs[i], job.Args.newTableNames[i],
                SeqRange(job.Args.oldTableIDs))
    /\ \A j \in 1..Len(job.Args.oldTableIDs) :
          j # i => /\ job.Args.oldTableIDs[j] # job.Args.oldTableIDs[i]
                   /\ ~(/\ job.Args.newSchemaIDs[j] = job.Args.newSchemaIDs[i]
                        /\ job.Args.newTableNames[j] = job.Args.newTableNames[i])

\* a table job the upstream can emit in the schema of the snapshot s
LegalTableDDL(s, job, ti) ==
    CASE job.Type \in {"ActionCreateTable", "ActionCreateView", "ActionRecoverTable"} ->
           /\ job.SchemaID \in DOMAIN s.schemas
           /\ FreshID(s, ti.ID)
           /\ \A p \in SeqRange(PartIDs(ti)) : FreshID(s, p)
           /\ NameFree(s, job.SchemaID, ti.Name, {})
      [] job.Type = "ActionRenameTable" ->
           /\ job.TableID \in DOMAIN s.tables
           /\ ti.ID = job.TableID
           /\ job.SchemaID \in DOMAIN s.schemas
           /\ ti.Partition = s.tables[job.TableID].Partition
           /\ NameFree(s, job.SchemaID, ti.Name, {})
      [] job.Type = "ActionTruncateTable" ->
           /\ job.TableID \in DOMAIN s.tables
           /\ s.tables[job.TableID].SchemaID = job.SchemaID
           /\ s.tables[job.TableID].TableName.Table = ti.Name
           /\ IsNil(ti.Partition) = IsNil(s.tables[job.TableID].Partition)
           /\ FreshID(s, ti.ID)
           /\ \A p \in SeqRange(PartIDs(ti)) : FreshID(s, p)
      [] job.Type \in {"ActionTruncateTablePartition", "ActionAddTablePartition",
                       "ActionDropTablePartition"} ->
           /\ SameTable(s, job, ti)
           /\ ~IsNil(ti.Partition)
           /\ ti.HasHandle = s.tables[job.TableID].HasHandle
      [] OTHER -> SameTable(s, job, ti)

\* a DDL job the upstream can emit in the schema of the snapshot s
LegalDDL(s, job) ==
    CASE job.Type = "ActionCreateSchema" ->
           /\ job.SchemaID \notin DOMAIN s.schemas
           /\ Val(Val(job.BinlogInfo).DBInfo).Name \notin DOMAIN s.schemaNameToID
      [] job.Type = "ActionModifySchemaCharsetAndCollate" ->
           /\ job.SchemaID \in DOMAIN s.schemas
           /\ s.schemas[job.SchemaID].Name = Val(Val(job.BinlogInfo).DBInfo).Name
      [] job.Type = "ActionDropSchema" ->
           job.SchemaID \in DOMAIN s.schemas
      [] job.Type \in {"ActionDropTable", "ActionDropView"} ->
           /\ job.TableID \in DOMAIN s.tables
           /\ s.tables[job.TableID].SchemaID = job.SchemaID
      [] job.Type = "ActionRenameTables" ->
           /\ Len(job.Args.oldSchemaIDs) = Len(job.Args.oldTableIDs)
           /\ Len(job.Args.newSchemaIDs) = Len(job.Args.oldTableIDs)
           /\ Len(job.Args.newTableNames) = Len(job.Args.oldTableIDs)
           /\ Len(Val(job.BinlogInfo).MultipleTableInfos) = Len(job.Args.oldTableIDs)
           /\ \A i \in 1..Len(job.Args.oldTableIDs) : LegalRename(s, job, i)
      [] OTHER ->
           /\ ~IsNil(Val(job.BinlogInfo).TableInfo)
           /\ LegalTableDDL(s, job, Val(Val(job.BinlogInfo).TableInfo))

\* jobs the storage has to reject: partition DDLs on an unknown table, on a
\* table that is not partitioned and with a record that is not partitioned;
\* RenameTables jobs whose arrays do not fit together or name an unknown table
FaultyJobsAt(ts) ==
    {TableJob("ActionAddTablePartition", "done", ts, 1, 13,
              Some(TableInfo(13, "x", Some(<<22>>), TRUE))),
     TableJob("ActionAddTablePartition", "done", ts, 1, 11,
              Some(TableInfo(11, "u", Some(<<22>>), FALSE))),
     TableJob("ActionDropTablePartition", "done", ts, 1, 10,
              Some(TableInfo(10, "t", Nil, TRUE))),
     TableJob("ActionDropTable", "done", ts, 1, 13, Nil),
     RenameTablesJobTo("done", ts, <<1>>, <<1>>, <<11>>, <<"w", "u">>,
                       <<TableInfo(11, "w", Nil, FALSE)>>),
     RenameTablesJobTo("done", ts, <<1>>, <<1>>, <<11>>, <<"w">>,
                       <<TableInfo(11, "w", Nil, FALSE), TableInfo(12, "x", Nil, FALSE)>>),
     RenameTablesJobTo("done", ts, <<1, 1>>, <<1, 1>>, <<11, 13>>, <<"w", "x">>,
                       <<TableInfo(11, "w", Nil, FALSE), TableInfo(13, "x", Nil, FALSE)>>),
     RenameTablesJobTo("done", ts, <<1>>, <<3>>, <<11>>, <<"w">>,
                       <<TableInfo(11, "w", Nil, FALSE)>>)}

FaultyJobs == UNION {FaultyJobsAt(ts) : ts \in JobTs}

\* table and partition ids a reader may ask for
PhysicalIDs == {10, 11, 12, 13, 20, 21, 22, 23}

\* a reader calls GetTableNameByID on the latest snapshot
GetTableNameByIDCall(id) ==
    /\ ~panicked /\ snapsMu = ""
    /\ \E r \in {GetTableNameByID(LastSnap, id)} :
          /\ ret' = Ret("GetTableNameByID", IF r.ok THEN "found" ELSE "absent", r.err, id)
          /\ panicked' = (r.err = "panic")
    /\ UNCHANGED <<store, arrays, snaps, gcTs, resolvedTs, forceReplicate, filter, nextId,
                   held, snapsMu, threads>>

InitDDL ==
    /\ NewSchemaStorage(Some(Catalog), 0, Nil, FALSE)
    /\ held = 0
    /\ ret = Ret("NewSchemaStorage", "", "nil", 0)
    /\ panicked = FALSE
    /\ snapsMu = ""
    /\ threads = NoThreads

NextDDL ==
    \/ \E job \in DDLJobs : LegalDDL(LastSnap, job) /\ HandleDDLJob(job)
    \/ \E job \in FaultyJobs : HandleDDLJob(job)
    \/ \E id \in PhysicalIDs : GetTableNameByIDCall(id)

SpecDDL == InitDDL /\ [][NextDDL]_vars

(***************************************************************************)
(* PhysicalTableByID on the snapshots NewSchemaStorage builds from a        *)
(* bounded set of catalogs; in some of them 11 is the id of a table and of *)
(* a partition of table 10.                                                *)
(***************************************************************************)
\* the partition lists of table 10, and the records of table 11 (none, plain,
\* partitioned)
LookupPartitions == {Nil, Some(<<20, 21>>), Some(<<20, 11>>), Some(<<11>>)}
LookupSecondTables == {<<>>, <<TableInfo(11, "u", Nil, FALSE)>>,
                       <<TableInfo(11, "u", Some(<<22>>), FALSE)>>}
LookupThirdTables == {<<>>, <<TableInfo(12, "w", Some(<<23>>), TRUE)>>}

LookupCatalogs ==
    {[dbs |-> <<DBInfo(1, "a", "utf8"), DBInfo(2, "B", "utf8")>>,
      tables |-> [sid \in {1, 2} |->
                    IF sid = 1 THEN <<TableInfo(10, "t", part, TRUE)>> \o second
                    ELSE third]] :
       part \in LookupPartitions, second \in LookupSecondTables,
       third \in LookupThirdTables}

\* a reader calls PhysicalTableByID on the latest snapshot; ret.path tells
\* whether it got nothing, the table of that id or the owner of a partition
PhysicalTableByIDCall(id) ==
    /\ ~panicked /\ snapsMu = ""
    /\ \E r \in {PhysicalTableByID(LastSnap, id)} :
          ret' = Ret("PhysicalTableByID",
                     IF IsNil(r) THEN "absent"
                     ELSE IF Val(r).ID = id THEN "table" ELSE "partition",
                     "nil", id)
    /\ UNCHANGED <<store, arrays, snaps, gcTs, resolvedTs, forceReplicate, filter, nextId,
                   held, panicked, snapsMu, threads>>

InitLookup ==
    /\ \E meta \in LookupCatalogs : NewSchemaStorage(Some(meta), 1, Nil, FALSE)
    /\ held = 0
    /\ ret = Ret("NewSchemaStorage", "", "nil", 0)
    /\ panicked = FALSE
    /\ snapsMu = ""
    /\ threads = NoThreads

NextLookup == \E id \in PhysicalIDs : PhysicalTableByIDCall(id)

SpecLookup == InitLookup /\ [][NextLookup]_vars

Next ==
    \/ \E job \in Jobs : HandleDDLJob(job)
    \/ \E ts \in Ts : AdvanceResolvedTs(ts)
    \/ \E ts \in Ts : GetSnapshot(ts)
    \/ GetLastSnapshot
    \/ \E ts \in Ts : DoGC(ts)

Spec == Init /\ [][Next]_vars

(***************************************************************************)
(* Properties                                                              *)
(***************************************************************************)
\* every snapshot object that is still referenced reads as before the step
SameViews ==
    \A id \in DOMAIN store :
        (id \in SeqRange(snaps') \/ id = held')
        => id \in DOMAIN store' /\ ViewOf(store'[id], arrays') = ViewOf(store[id], arrays)

\* C1: under every interleaving of the DDL thread, the GC thread and the
\* consumers, a lookup that returns a snapshot s for the timestamp T returns one
\* that is in the history while the read lock is held, with s.currentTs <= T and
\* no snapshot of the history with a currentTs in (s.currentTs, T].
C1_LookupOrderingLaw ==
    [][\A c \in Consumers :
          (threads[c].pc = "lookup" /\ threads'[c].pc = "done" /\ threads'[c].err = "nil")
          => LET T == threads[c].ts
                 s == threads'[c].val
             IN /\ s \in SeqRange(snaps)
                /\ store[s].currentTs <= T
                /\ \A i \in 1..Len(snaps) :
                      ~(store[s].currentTs < CurrentTs(i) /\ CurrentTs(i) <= T)]_vars

\* a consumer has obtained a snapshot older than the latest one, after DoGC has
\* truncated the history, while the DDL thread is inside AdvanceResolvedTs
C1_Witness ==
    /\ \E c \in Consumers :
          /\ threads[c].pc = "done" /\ threads[c].err = "nil"
          /\ threads[c].val \in SeqRange(snaps)
          /\ threads[c].val # snaps[Len(snaps)]
    /\ gcTs > 0
    /\ threads["ddl"].pc \in {"load", "cas"}

\* C2: right after DoGC has returned T', with no call in between, getSnapshot(T'')
\* returns a snapshot for every T'' in [T', resolvedTs] and fails with
\* ErrSchemaStorageGCed for every T'' < T'.
C2_GCRoundTrip ==
    ret.op = "DoGC" =>
        \A T \in Ts :
            /\ (ret.val <= T /\ T <= resolvedTs) => getSnapshot(T).err = "nil"
            /\ T < ret.val => getSnapshot(T).err = "ErrSchemaStorageGCed"

\* C3: no step of any thread decreases resolvedTs.
C3_ResolvedTsMonotonic == [][resolvedTs' >= resolvedTs]_vars

\* a compare-and-swap is about to fail: the thread adv holds a resolvedTs it
\* loaded before the DDL thread raised it
C3_Witness ==
    /\ threads["adv"].pc = "cas"
    /\ threads["adv"].old < resolvedTs
    /\ threads["adv"].ts < resolvedTs

\* C4: the snapshots of the history are strictly increasing in currentTs.
C4_StrictlyOrdered ==
    \A i \in 1..Len(snaps), j \in 1..Len(snaps) : i < j => CurrentTs(i) < CurrentTs(j)

ListedErrors ==
    {"ErrSnapshotSchemaNotFound", "ErrSnapshotSchemaExists", "ErrSnapshotTableNotFound",
     "ErrSnapshotTableExists", "ErrInvalidDDLJob"}

\* C5: a HandleDDLJob whose DDL application fails with one of the snapshot
\* errors leaves the history, every snapshot in it, resolvedTs and gcTs as they
\* were before the call.
C5_FailedDDLChangesNothing ==
    [][(ret'.op = "HandleDDLJob" /\ ret'.path = "failed" /\ ret'.err \in ListedErrors)
       => /\ snaps' = snaps
          /\ SameViews
          /\ DOMAIN store' = DOMAIN store
          /\ resolvedTs' = resolvedTs
          /\ gcTs' = gcTs]_vars

\* a DDL has failed after it had changed its clone
C5_Witness ==
    ret.op = "HandleDDLJob" /\ ret.path = "failed" /\ ret.err \in ListedErrors /\ ret.val = 1

\* C6: HandleDDLJob with a job that is not skipped and whose FinishedTS is not
\* above the currentTs of the last snapshot returns nil and changes neither the
\* history nor a snapshot nor resolvedTs nor gcTs.
C6_ForegoneJobIsNoOp ==
    [][(\E job \in Jobs :
           /\ ~skipJob(job)
           /\ ~IsNil(job.BinlogInfo)
           /\ FinishedTS(job) <= CurrentTs(Len(snaps))
           /\ HandleDDLJob(job))
          => /\ ret'.err = "nil"
             /\ snaps' = snaps
             /\ SameViews
             /\ DOMAIN store' = DOMAIN store
             /\ resolvedTs' = resolvedTs
             /\ gcTs' = gcTs]_vars

\* a job has been ignored as foregone while resolvedTs is above the last snapshot
C6_Witness ==
    /\ ret.op = "HandleDDLJob" /\ ret.path = "foregone"
    /\ Len(snaps) >= 2
    /\ resolvedTs > CurrentTs(Len(snaps))

\* what HandleDDLJob(job) would return in the current state, and the length
\* of the history after it
HandleDDLJobOutcome(job) ==
    IF skipJob(job)
    THEN [err |-> IF IsNil(job.BinlogInfo) THEN "panic" ELSE "nil", len |-> Len(snaps)]
    ELSE [err |-> handleDDLJobLocked(job).err, len |-> Len(handleDDLJobLocked(job).snaps)]

\* C7: a job that HandleDDLJob has accepted without error is accepted without
\* error again, and the second delivery leaves the length of the history unchanged.
C7_DuplicateDeliveryIdempotent ==
    [][\A job \in Jobs :
          (HandleDDLJob(job) /\ ret'.err = "nil")
          => /\ HandleDDLJobOutcome(job)'.err = "nil"
             /\ HandleDDLJobOutcome(job)'.len = Len(snaps')]_vars

\* C8: no call changes a snapshot object that is in the history or that a
\* consumer holds.
C8_PublishedSnapshotImmutable == [][SameViews]_vars

\* a DDL has been applied while a consumer holds a snapshot that DoGC has
\* removed from the history
C8_Witness ==
    /\ held # 0 /\ held \notin SeqRange(snaps)
    /\ ret.op = "HandleDDLJob" /\ ret.path = "applied"

\* the history DoGC(ts) must leave: the snapshots above ts and the last one at
\* or below ts
GCIndicesKept(ts) ==
    LET below == {i \in 1..Len(snaps) : CurrentTs(i) <= ts}
    IN {i \in 1..Len(snaps) : CurrentTs(i) > ts}
       \cup {i \in below : \A j \in below : j <= i}
GCExpected(ts) == SelectSeq(snaps, LAMBDA id : \E i \in GCIndicesKept(ts) : snaps[i] = id)

\* C9: DoGC(ts) removes exactly the snapshots with currentTs <= ts except the
\* last of them, and never leaves the history empty.
C9_GCRemovesExactly ==
    [][\A ts \in Ts :
          DoGC(ts) => /\ snaps' = GCExpected(ts)
                      /\ Len(snaps') >= 1]_vars

\* DoGC has removed a snapshot and has kept the baseline and a newer snapshot
C9_Witness ==
    /\ ret.op = "DoGC"
    /\ Len(snaps) >= 2
    /\ gcTs = CurrentTs(1)
    /\ 1 \notin SeqRange(snaps)

\* C10: right after DoGC has returned T', gcTs = T' and T' is the currentTs of
\* the oldest snapshot of the history.
C10_GCReturnsOldestAndStoresIt ==
    ret.op = "DoGC" => (gcTs = ret.val /\ ret.val = CurrentTs(1))

\* C11: a getSnapshot attempt that reads gcTs > ts ends the call at once with
\* ErrSchemaStorageGCed, whatever resolvedTs is: no resolvedTs test, no retry.
C11_GCedFailsAtOnce ==
    [][\A c \in Consumers :
          (threads[c].pc = "loadGcTs" /\ threads[c].ts < gcTs /\ threads'[c] # threads[c])
          => /\ threads'[c].pc = "done"
             /\ threads'[c].err = "ErrSchemaStorageGCed"
             /\ threads'[c].val = 0]_vars

\* a call has ended with ErrSchemaStorageGCed for a ts below gcTs
C11_Witness ==
    \E c \in Consumers :
        /\ threads[c].pc = "done" /\ threads[c].err = "ErrSchemaStorageGCed"
        /\ threads[c].ts < gcTs

\* a consumer inside GetSnapshot
InGetSnapshot(c) == threads[c].pc \in {"loadGcTs", "loadResolvedTs", "lookup", "backoff"}

\* C12: GetSnapshot never returns ErrSchemaStorageUnresolved, and under fair
\* scheduling a call whose ts is at or below resolvedTs returns.
C12_BlockingLookupReturns ==
    /\ [](\A c \in Consumers :
            ~(threads[c].pc = "done" /\ threads[c].err = "ErrSchemaStorageUnresolved"))
    /\ \A c \in Consumers :
          (InGetSnapshot(c) /\ threads[c].ts <= resolvedTs) ~> (threads[c].pc = "done")

\* a call that has found its ts unresolved is in its backoff while resolvedTs
\* has reached its ts
C12_Witness ==
    \E c \in Consumers :
        /\ threads[c].pc = "backoff" /\ threads[c].err = "ErrSchemaStorageUnresolved"
        /\ threads[c].ts <= resolvedTs

\* C13: a GetSnapshot cancelled in its backoff returns the cancellation error
\* and no snapshot, and changes neither the history nor a snapshot nor
\* resolvedTs nor gcTs.
C13_CancelReturnsAndChangesNothing ==
    [][\A c \in Consumers :
          GetSnapshotCancel(c)
          => /\ threads'[c].pc = "done"
             /\ threads'[c].err = "context canceled"
             /\ threads'[c].val = 0
             /\ snaps' = snaps
             /\ SameViews
             /\ DOMAIN store' = DOMAIN store
             /\ resolvedTs' = resolvedTs
             /\ gcTs' = gcTs]_vars

\* a call has been cancelled while the history has more than one snapshot
C13_Witness ==
    \E c \in Consumers :
        /\ threads[c].pc = "done" /\ threads[c].err = "context canceled"
        /\ Len(snaps) >= 2

\* the filter discards the job's type, or its state is neither done nor synced
SkipCondition(job) ==
    \/ ~IsNil(filter) /\ job.Type \in Val(filter)
    \/ job.State \notin {"done", "synced"}

\* C14: HandleDDLJob takes the skip path exactly for the jobs whose type the
\* filter discards or whose state is neither done nor synced; on that path it
\* returns nil, leaves the history, the snapshots and gcTs as they were, and
\* leaves resolvedTs at the maximum of its old value and the job's FinishedTS.
C14_SkippedJobOnlyAdvances ==
    [][\A job \in Jobs :
          (/\ ret'.op = "HandleDDLJob"
           /\ ~IsNil(job.BinlogInfo)
           /\ ret'.path = "skip" \/ SkipCondition(job)
           /\ HandleDDLJob(job))
          => /\ ret'.path = "skip" /\ SkipCondition(job)
             /\ ret'.err = "nil"
             /\ snaps' = snaps
             /\ SameViews
             /\ DOMAIN store' = DOMAIN store
             /\ gcTs' = gcTs
             /\ resolvedTs' = IF FinishedTS(job) > resolvedTs
                              THEN FinishedTS(job) ELSE resolvedTs]_vars

\* a job has been skipped by a storage that has a filter, and resolvedTs is
\* above the last snapshot
C14_Witness ==
    /\ ret.op = "HandleDDLJob" /\ ret.path = "skip"
    /\ ~IsNil(filter)
    /\ resolvedTs > CurrentTs(Len(snaps))

\* C15: the step of HandleDDLJob that appends the snapshot of an applied job
\* with FinishedTS F leaves resolvedTs as it was and leaves a snapshot with
\* currentTs = F last in the history; and when the DDL thread then raises
\* resolvedTs to F, still under snapsMu, the history holds a snapshot with
\* currentTs = F, so that a reader of resolvedTs >= F finds it.
C15_AppendBeforePublish ==
    [][/\ \A job \in ConcJobs :
            (~skipJob(job) /\ snaps' # snaps /\ HandleDDLJobBegin(job))
            => /\ resolvedTs' = resolvedTs
               /\ CurrentTs(Len(snaps))' = FinishedTS(job)
       /\ (/\ threads["ddl"].pc = "cas" /\ threads'["ddl"].pc = "done"
           /\ snapsMu = "ddl"
           /\ resolvedTs' # resolvedTs)
          => \E i \in 1..Len(snaps) : CurrentTs(i) = resolvedTs']_vars

\* C16: the snapshot HandleDDLJob appends has the FinishedTS of its job as
\* its currentTs.
C16_AppendedSnapshotHasJobTs ==
    [][\A job \in Jobs :
          (ret'.op = "HandleDDLJob" /\ ret'.path = "applied" /\ HandleDDLJob(job))
          => CurrentTs(Len(snaps))' = FinishedTS(job)]_vars

\* the jobs that carry a BinlogInfo
JobsWithBinlogInfo == {job \in Jobs : ~IsNil(job.BinlogInfo)}

\* C17, as the specification states it: on every snapshot of the history and
\* for every job of every type, FillSchemaName fails with
\* ErrSnapshotSchemaNotFound when job.SchemaID is not a schema of the snapshot,
\* and otherwise fills in the name the snapshot holds for job.SchemaID.
C17_FillSchemaNameAllKinds ==
    \A id \in SeqRange(snaps), job \in JobsWithBinlogInfo :
        IF job.SchemaID \notin DOMAIN store[id].schemas
        THEN FillSchemaName(store[id], job).err = "ErrSnapshotSchemaNotFound"
        ELSE /\ FillSchemaName(store[id], job).err = "nil"
             /\ FillSchemaName(store[id], job).job.SchemaName
                    = store[id].schemas[job.SchemaID].Name

\* C17, amended: FillSchemaName leaves an ActionRenameTables job as it is and
\* returns nil; for ActionCreateSchema and ActionDropSchema it returns nil and
\* fills in the name of the job's own DBInfo, whether the snapshot knows
\* job.SchemaID or not; for every other type it fails with
\* ErrSnapshotSchemaNotFound when job.SchemaID is unknown and otherwise fills in
\* the name the snapshot holds.  A handleDDL that fails there leaves the
\* snapshot as it was.
C17_FillSchemaNameByKind ==
    \A id \in SeqRange(snaps), job \in JobsWithBinlogInfo :
        \E f \in {FillSchemaName(store[id], job)} :
            CASE job.Type = "ActionRenameTables" ->
                   f.err = "nil" /\ f.job = job
              [] job.Type \in {"ActionCreateSchema", "ActionDropSchema"} ->
                   /\ f.err = "nil"
                   /\ f.job = [job EXCEPT !.SchemaName = Val(Val(job.BinlogInfo).DBInfo).Name]
              [] OTHER ->
                   IF job.SchemaID \notin DOMAIN store[id].schemas
                   THEN /\ f.err = "ErrSnapshotSchemaNotFound"
                        /\ handleDDL(Mach(store[id], arrays, id), job).err
                              = "ErrSnapshotSchemaNotFound"
                        /\ handleDDL(Mach(store[id], arrays, id), job).s = store[id]
                   ELSE /\ f.err = "nil"
                        /\ f.job = [job EXCEPT !.SchemaName =
                                                 store[id].schemas[job.SchemaID].Name]

\* HandleDDLJob has failed with ErrSnapshotSchemaNotFound without a change to
\* its clone, the last snapshot lacking the schema of a table job and of an
\* ActionDropSchema job
C17_Witness ==
    /\ ret.op = "HandleDDLJob" /\ ret.path = "failed"
    /\ ret.err = "ErrSnapshotSchemaNotFound" /\ ret.val = 0
    /\ \E job \in JobsWithBinlogInfo :
          /\ job.Type = "ActionDropTable"
          /\ job.SchemaID \notin DOMAIN store[snaps[Len(snaps)]].schemas
    /\ \E job \in JobsWithBinlogInfo :
          /\ job.Type = "ActionDropSchema"
          /\ job.SchemaID \notin DOMAIN store[snaps[Len(snaps)]].schemas

\* the schema image of the last snapshot: its content but for currentTs
LastImage ==
    [ViewOf(store[snaps[Len(snaps)]], arrays) EXCEPT !.currentTs = 0]

\* C18: HandleDDLJob with a job of a type handleDDL does not know that carries
\* no BinlogInfo, or a BinlogInfo without TableInfo, returns nil without a
\* crash and leaves the schema image of the last snapshot as it was.
C18_MalformedJobIsSkipped ==
    [][\A job \in Jobs :
          (/\ ret'.op = "HandleDDLJob"
           /\ job.Type \notin KnownTypes
           /\ IsNil(job.BinlogInfo) \/ IsNil(Val(job.BinlogInfo).TableInfo)
           /\ HandleDDLJob(job))
          => /\ ret'.err = "nil"
             /\ ~panicked'
             /\ LastImage' = LastImage]_vars

\* C19: in every snapshot of the history the ineligible ids are ids of tables
\* or of partitions of the snapshot.
C19_IneligibleIdsAreKnown ==
    \A id \in SeqRange(snaps) :
        store[id].ineligibleTableID
            \subseteq (DOMAIN store[id].tables) \cup (DOMAIN store[id].partitionTable)


\* DropTable applied to the tables ids, one after the other
RECURSIVE dropTables(_, _)
dropTables(m, ids) ==
    IF ids = <<>> \/ ~Ok(m) THEN m
    ELSE dropTables(dropTable(m, Head(ids)), Tail(ids))

\* a snapshot without its timestamp, as a reader sees it
Content(m) == [ViewOf(m.s, m.h) EXCEPT !.currentTs = 0]

\* C20: a DropSchema job on a known schema is applied, and the snapshot it
\* appends is the last one after DropTable of every table of the schema's list
\* and the removal of the schema record, its name and its list; on an unknown
\* schema id the job fails with SchemaNotFound.
C20_DropSchemaCascadesDropTable ==
    [][\A job \in Jobs :
          (/\ job.Type = "ActionDropSchema"
           /\ ret'.op = "HandleDDLJob"
           /\ ret'.path \in {"applied", "failed"}
           /\ HandleDDLJob(job))
          => \E m \in {Mach(store[snaps[Len(snaps)]], arrays, 0)} :
                IF job.SchemaID \in DOMAIN m.s.schemas
                THEN /\ ret'.path = "applied"
                     /\ Content(Mach(store'[snaps'[Len(snaps')]], arrays', 0))
                          = Content(dropSchemaMaps(
                                      dropTables(m, SliceElems(m.h, m.s.tableInSchema[job.SchemaID])),
                                      job.SchemaID))
                ELSE /\ ret'.path = "failed"
                     /\ ret'.err = "ErrSnapshotSchemaNotFound"]_vars

\* the jobs of the upstream's history that replace a table record
ReplaceJobs == {job \in DDLJobs : job.Type \notin KnownTypes}

\* C21: after a DDL of another kind has replaced a table record, the table id
\* and every partition id of the new record are ineligible when the new record
\* is ineligible, and none of them is when the new record is eligible.
C21_ReplaceTracksEligibility ==
    [][\A job \in ReplaceJobs :
          (/\ ret'.op = "HandleDDLJob"
           /\ ret'.path = "applied"
           /\ LegalDDL(LastSnap, job)
           /\ HandleDDLJob(job))
          => \A id \in {job.TableID} \cup SeqRange(PartIDs(LastSnap'.tables[job.TableID])) :
                IsIneligibleTableID(LastSnap', id)
                  = ~IsEligible(LastSnap'.tables[job.TableID], forceReplicate)]_vars

\* C22: in every snapshot of the history a partition id of the partition
\* index maps to the record stored in tables under its table id, that record
\* has the partition id, and the partition ids mapped to a table are exactly
\* those of its record.
C22_PartitionIndexConsistent ==
    \A id \in SeqRange(snaps) :
        /\ \A p \in DOMAIN store[id].partitionTable :
              /\ store[id].partitionTable[p].ID \in DOMAIN store[id].tables
              /\ store[id].tables[store[id].partitionTable[p].ID] = store[id].partitionTable[p]
              /\ p \in SeqRange(PartIDs(store[id].partitionTable[p]))
        /\ \A tid \in DOMAIN store[id].tables :
              {p \in DOMAIN store[id].partitionTable : store[id].partitionTable[p].ID = tid}
                = SeqRange(PartIDs(store[id].tables[tid]))

\* C23: GetTableNameByID on the latest snapshot never fails; for the id of a
\* table it returns the table's name, for the id of a partition the name of
\* the table stored under the owning table id, and for any other id nothing.
C23_TableNameByIDDefined ==
    [][\A id \in PhysicalIDs :
          (ret'.op = "GetTableNameByID" /\ ret'.val = id /\ GetTableNameByIDCall(id))
          => /\ ret'.err = "nil"
             /\ IF id \in DOMAIN LastSnap.tables
                THEN /\ ret'.path = "found"
                     /\ GetTableNameByID(LastSnap, id).name = Some(LastSnap.tables[id].TableName)
                ELSE IF id \in DOMAIN LastSnap.partitionTable
                THEN /\ ret'.path = "found"
                     /\ LastSnap.partitionTable[id].ID \in DOMAIN LastSnap.tables
                     /\ GetTableNameByID(LastSnap, id).name
                          = Some(LastSnap.tables[LastSnap.partitionTable[id].ID].TableName)
                ELSE ret'.path = "absent"]_vars

\* C24: in every snapshot of the history schemaNameToID has one entry for
\* every schema, under the schema's name, and tableNameToID has one entry for
\* every table, under the name of the table's record.
C24_NameIndicesAreInverses ==
    \A id \in SeqRange(snaps) :
        /\ DOMAIN store[id].schemaNameToID
             = {store[id].schemas[sid].Name : sid \in DOMAIN store[id].schemas}
        /\ \A sid \in DOMAIN store[id].schemas :
              store[id].schemaNameToID[store[id].schemas[sid].Name] = sid
        /\ Cardinality(DOMAIN store[id].schemaNameToID) = Cardinality(DOMAIN store[id].schemas)
        /\ DOMAIN store[id].tableNameToID
             = {store[id].tables[tid].TableName : tid \in DOMAIN store[id].tables}
        /\ \A tid \in DOMAIN store[id].tables :
              store[id].tableNameToID[store[id].tables[tid].TableName] = tid
        /\ Cardinality(DOMAIN store[id].tableNameToID) = Cardinality(DOMAIN store[id].tables)

\* the table ids listed under schema sid in the snapshot object id
TableList(id, sid) == SliceElems(arrays, store[id].tableInSchema[sid])

\* C25: in every snapshot of the history every table id is listed exactly
\* once under its owning schema and under no other schema, and every id
\* listed under a schema is the id of a table.
C25_TableListsMatchTables ==
    \A id \in SeqRange(snaps) :
        /\ \A tid \in DOMAIN store[id].tables :
              /\ store[id].tables[tid].SchemaID \in DOMAIN store[id].tableInSchema
              /\ \A sid \in DOMAIN store[id].tableInSchema :
                    Cardinality({i \in 1..Len(TableList(id, sid)) : TableList(id, sid)[i] = tid})
                      = IF sid = store[id].tables[tid].SchemaID THEN 1 ELSE 0
        /\ \A sid \in DOMAIN store[id].tableInSchema :
              SeqRange(TableList(id, sid)) \subseteq DOMAIN store[id].tables

\* a snapshot of the history lists tables under two schemas, after a table
\* has moved from one schema to another
C25_Witness ==
    /\ Len(snaps) > 1
    /\ 10 \in DOMAIN LastSnap.tables
    /\ LastSnap.tables[10].SchemaID = 2
    /\ TableList(snaps[Len(snaps)], 2) = <<10>>
    /\ TableList(snaps[Len(snaps)], 1) = <<11>>

PartitionKinds ==
    {"ActionTruncateTablePartition", "ActionAddTablePartition", "ActionDropTablePartition"}

\* the partition DDLs delivered to the storage
PartitionJobs == {job \in DDLJobs \cup FaultyJobs : job.Type \in PartitionKinds}

\* the job is one the storage is given in the current state
Delivered(job) == job \in FaultyJobs \/ LegalDDL(LastSnap, job)

\* updatePartition has nothing to reconcile: the table of the new record ti is
\* unknown, or its record or ti has no partitions
NotReconcilable(s, ti) ==
    \/ ti.ID \notin DOMAIN s.tables
    \/ IsNil(GetPartitionInfo(s.tables[ti.ID]))
    \/ IsNil(GetPartitionInfo(ti))

\* the partition index, the truncated ids and the ineligible ids of the
\* snapshot s1 are those of s0 reconciled with the new record ti of a table
Reconciled(s0, s1, ti) ==
    /\ \A p \in SeqRange(PartIDs(ti)) :
          /\ p \in DOMAIN s1.partitionTable
          /\ s1.partitionTable[p] = s1.tables[ti.ID]
          /\ PartIDs(s1.tables[ti.ID]) = PartIDs(ti)
          /\ p \in s1.truncateTableID => p \in s0.truncateTableID
    /\ \A p \in SeqRange(PartIDs(s0.tables[ti.ID])) \ SeqRange(PartIDs(ti)) :
          /\ p \in s1.truncateTableID
          /\ p \notin DOMAIN s1.partitionTable
          /\ p \notin s1.ineligibleTableID

\* C26: a partition DDL that is applied reconciles the partition index of its
\* table: the new partition ids map to the new record, the ids that are gone
\* are truncated and in neither the partition index nor the ineligible ids,
\* and no new id becomes truncated.  On an unknown table, or when the table's
\* record or the new record has no partitions, the job fails and the history
\* keeps its snapshots as they are.
C26_PartitionReconciliation ==
    [][\A job \in PartitionJobs :
          (/\ ret'.op = "HandleDDLJob"
           /\ ret'.path \in {"applied", "failed"}
           /\ Delivered(job)
           /\ HandleDDLJob(job))
          => IF NotReconcilable(LastSnap, Val(Val(job.BinlogInfo).TableInfo))
             THEN /\ ret'.path = "failed"
                  /\ ret'.err \in ListedErrors
                  /\ ret'.val = 0
                  /\ snaps' = snaps
                  /\ SameViews
             ELSE ret'.path = "applied"
                    => Reconciled(LastSnap, LastSnap', Val(Val(job.BinlogInfo).TableInfo))]_vars

\* a partition DDL has been applied that replaced partition 21 by partition 23
C26_Witness ==
    /\ ret.op = "HandleDDLJob" /\ ret.path = "applied"
    /\ 10 \in DOMAIN LastSnap.tables
    /\ PartIDs(LastSnap.tables[10]) = <<20, 23>>
    /\ 21 \in LastSnap.truncateTableID
    /\ 23 \in DOMAIN LastSnap.partitionTable

\* the TruncateTable jobs of the upstream's history
TruncateJobs == {job \in DDLJobs : job.Type = "ActionTruncateTable"}

\* the snapshot s1 is s0 after TruncateTable of the table old into the new
\* table ti of the schema sid
Truncated(s0, s1, sid, old, ti) ==
    /\ ti.ID \in DOMAIN s1.tables
    /\ old \notin DOMAIN s1.tables
    /\ GetTableIDByName(s1, s0.schemas[sid].Name, ti.Name) = [id |-> ti.ID, ok |-> TRUE]
    /\ IsTruncateTableID(s1, old)
    /\ ~IsTruncateTableID(s1, ti.ID)
    /\ \A p \in SeqRange(PartIDs(s0.tables[old])) : p \notin DOMAIN s1.partitionTable

\* C27: after TruncateTable of an existing table the new table id is in
\* tables and the old one is not, the table's name maps to the new id, the
\* old id is truncated and the new one is not, and the partition ids of the
\* old table have left the partition index.
C27_TruncateTable ==
    [][\A job \in TruncateJobs :
          (/\ ret'.op = "HandleDDLJob"
           /\ ret'.path = "applied"
           /\ LegalDDL(LastSnap, job)
           /\ HandleDDLJob(job))
          => Truncated(LastSnap, LastSnap', job.SchemaID, job.TableID,
                       Val(Val(job.BinlogInfo).TableInfo))]_vars

\* the partitioned table 10 has been truncated into table 12
C27_Witness ==
    /\ ret.op = "HandleDDLJob" /\ ret.path = "applied"
    /\ 12 \in DOMAIN LastSnap.tables
    /\ PartIDs(LastSnap.tables[12]) = <<22, 23>>
    /\ 10 \notin DOMAIN LastSnap.tables
    /\ 10 \in LastSnap.truncateTableID

\* the RenameTable jobs of the upstream's history
RenameJobs == {job \in DDLJobs : job.Type = "ActionRenameTable"}

\* the snapshot v1 (as a reader sees it) is the snapshot s0 after RenameTable
\* of the table tid to the name of the record ti in the schema sid
Renamed(s0, v1, sid, tid, ti) ==
    /\ ~GetTableIDByName(v1, s0.tables[tid].TableName.Schema,
                         s0.tables[tid].TableName.Table).ok
    /\ GetTableIDByName(v1, s0.schemas[sid].Name, ti.Name) = [id |-> tid, ok |-> TRUE]
    /\ \A x \in DOMAIN v1.tableInSchema :
          Cardinality({i \in 1..Len(v1.tableInSchema[x]) : v1.tableInSchema[x][i] = tid})
            = IF x = sid THEN 1 ELSE 0
    /\ ~IsTruncateTableID(v1, tid)

\* C28: after RenameTable the old name of the table is not found, the new
\* name maps to the table's id, the id is listed once under the new owning
\* schema and under no other schema, and the id is not truncated.
C28_RenameTableKeepsID ==
    [][\A job \in RenameJobs :
          (/\ ret'.op = "HandleDDLJob"
           /\ ret'.path = "applied"
           /\ LegalDDL(LastSnap, job)
           /\ HandleDDLJob(job))
          => Renamed(LastSnap, ViewOf(LastSnap', arrays'), job.SchemaID, job.TableID,
                     Val(Val(job.BinlogInfo).TableInfo))]_vars

\* table 10 has been renamed from schema 'a' into schema 'B'
C28_Witness ==
    /\ ret.op = "HandleDDLJob" /\ ret.path = "applied"
    /\ GetTableIDByName(LastSnap, "B", "t") = [id |-> 10, ok |-> TRUE]
    /\ ~GetTableIDByName(LastSnap, "a", "t").ok
    /\ 10 \notin LastSnap.truncateTableID

\* the RenameTables jobs of the upstream's history
RenameTablesJobs == {job \in DDLJobs : job.Type = "ActionRenameTables"}

\* in the snapshot v (as a reader sees it) the table tid is registered under
\* the schema sid with the table name `name`
Registered(v, tid, sid, name) ==
    /\ tid \in DOMAIN v.tables
    /\ v.tables[tid].SchemaID = sid
    /\ v.tables[tid].TableName.Table = name
    /\ sid \in DOMAIN v.tableInSchema
    /\ tid \in SeqRange(v.tableInSchema[sid])
    /\ v.tables[tid].TableName \in DOMAIN v.tableNameToID
    /\ v.tableNameToID[v.tables[tid].TableName] = tid

\* C29: a RenameTables job of the history, one that swaps the names of two
\* tables included, is applied without an error, and afterwards the i-th
\* table is registered under the i-th new schema with the i-th new name.
C29_RenameTablesTwoPhase ==
    [][\A job \in RenameTablesJobs :
          (/\ ret'.op = "HandleDDLJob"
           /\ ret'.path \in {"applied", "failed"}
           /\ LegalDDL(LastSnap, job)
           /\ HandleDDLJob(job))
          => /\ ret'.path = "applied"
             /\ \A i \in 1..Len(job.Args.oldTableIDs) :
                   Registered(ViewOf(LastSnap', arrays'),
                              Val(job.BinlogInfo).MultipleTableInfos[i].ID,
                              job.Args.newSchemaIDs[i], job.Args.newTableNames[i])]_vars

\* the tables 10 and 11 have swapped their names
C29_Witness ==
    /\ ret.op = "HandleDDLJob" /\ ret.path = "applied"
    /\ GetTableIDByName(LastSnap, "a", "u") = [id |-> 10, ok |-> TRUE]
    /\ GetTableIDByName(LastSnap, "a", "t") = [id |-> 11, ok |-> TRUE]

\* the RenameTables jobs delivered to the storage
AllRenameTablesJobs == {job \in DDLJobs \cup FaultyJobs : job.Type = "ActionRenameTables"}

\* C30: a RenameTables job with fewer table records than new names fails with
\* InvalidDDLJob; any other RenameTables job ends with success, TableNotFound,
\* TableExists or SchemaNotFound.
C30_RenameTablesErrors ==
    [][\A job \in AllRenameTablesJobs :
          (/\ ret'.op = "HandleDDLJob"
           /\ ret'.path \in {"applied", "failed"}
           /\ Delivered(job)
           /\ HandleDDLJob(job))
          => IF Len(Val(job.BinlogInfo).MultipleTableInfos) < Len(job.Args.newTableNames)
             THEN ret'.path = "failed" /\ ret'.err = "ErrInvalidDDLJob"
             ELSE ret'.err \in {"nil", "ErrSnapshotTableNotFound", "ErrSnapshotTableExists",
                                "ErrSnapshotSchemaNotFound"}]_vars

\* C31: along the history the truncated ids only grow: those of a snapshot
\* are among those of every later snapshot.
C31_TruncatedIdsOnlyGrow ==
    \A i \in 1..Len(snaps) : \A j \in i..Len(snaps) :
        store[snaps[i]].truncateTableID \subseteq store[snaps[j]].truncateTableID

\* table 10 has been truncated, and then its schema has been dropped
C31_Witness ==
    /\ Len(snaps) = 3
    /\ 10 \in store[snaps[2]].truncateTableID
    /\ 1 \in DOMAIN store[snaps[2]].schemas
    /\ 1 \notin DOMAIN store[snaps[3]].schemas

\* the step delivers no DDL job below resolvedTs and collects no garbage past T
InOrder(T) ==
    /\ ret'.op = "HandleDDLJob" =>
           \E job \in JobsWithBinlogInfo :
               FinishedTS(job) >= resolvedTs /\ HandleDDLJob(job)
    /\ ret'.op = "DoGC" => \E ts \in 0..T : DoGC(ts)

\* C32: with jobs delivered in order of finished timestamp and no collection
\* past T, a lookup at T that succeeded keeps returning a snapshot of the same
\* currentTs and the same schema image.
C32_LookupsAreStable ==
    [][\A T \in Ts :
          (/\ getSnapshot(T).err = "nil"
           /\ InOrder(T)
           /\ getSnapshot(T)'.err = "nil")
          => ViewOf(store[getSnapshot(T).snap], arrays)
                = ViewOf(store'[getSnapshot(T)'.snap], arrays')]_vars

\* C33: an attempt of getSnapshot at a timestamp that the first snapshot of
\* the storage serves (startTs = 1 or later), DoGC running beside it or not,
\* ends in a snapshot, ErrSchemaStorageGCed or ErrSchemaStorageUnresolved,
\* never in ErrSchemaSnapshotNotFound.
C33_NeverSnapshotNotFound ==
    \A c \in Consumers :
        threads[c].ts >= 1 => threads[c].err # "ErrSchemaSnapshotNotFound"

\* C34: in every interleaving of HandleDDLJob, AdvanceResolvedTs and DoGC,
\* gcTs never decreases and never exceeds resolvedTs.
C34_GcTsBelowResolvedTs ==
    [][gcTs' >= gcTs /\ gcTs' <= resolvedTs']_vars

\* DoGC has raised gcTs to 2 while a caller of AdvanceResolvedTs is about to
\* write resolvedTs
C34_Witness ==
    /\ gcTs = 2
    /\ threads["gc"].pc = "done"
    /\ threads["adv"].pc = "cas"

\* C35: the history is never empty and GetLastSnapshot returns the snapshot
\* of the history with the largest currentTs; whenever no writer holds
\* snapsMu, resolvedTs is at least the currentTs of the latest snapshot.
C35_LatestSnapshot ==
    /\ [](/\ Len(snaps) >= 1
          /\ snapsMu = "" => resolvedTs >= CurrentTs(Len(snaps)))
    /\ [][\A c \in Consumers :
             (threads'[c].pc = "last" /\ threads'[c] # threads[c])
             => /\ threads'[c].err = "nil"
                /\ threads'[c].val \in {snaps[i] : i \in 1..Len(snaps)}
                /\ \A i \in 1..Len(snaps) :
                      CurrentTs(i) <= store[threads'[c].val].currentTs]_vars

\* a consumer has the snapshot GetLastSnapshot gave it, of currentTs 1, and
\* HandleDDLJob, holding snapsMu, has appended a snapshot above resolvedTs
C35_Witness ==
    /\ threads["c1"].pc = "last"
    /\ store[threads["c1"].val].currentTs = 1
    /\ snapsMu = "ddl"
    /\ Len(snaps) >= 2
    /\ CurrentTs(Len(snaps)) > resolvedTs

\* C36: for every table id of the latest snapshot, SchemaByTableID returns
\* the schema whose ID is the SchemaID of the table's record, also for the
\* tables RenameTables created in a schema whose name has upper-case letters.
C36_SchemaByTableID ==
    \A id \in DOMAIN LastSnap.tables :
        /\ ~IsNil(SchemaByTableID(LastSnap, id))
        /\ Val(SchemaByTableID(LastSnap, id)).ID = LastSnap.tables[id].SchemaID

\* C37: PhysicalTableByID(id) returns tables[id] when id is a table id,
\* otherwise the table partitionTable holds for the partition id, otherwise
\* nothing; it never returns a partition's owner for an id that is a key of
\* tables.
C37_PhysicalTableByID ==
    /\ \A id \in PhysicalIDs :
          PhysicalTableByID(LastSnap, id) =
             IF id \in DOMAIN LastSnap.tables THEN Some(LastSnap.tables[id])
             ELSE IF id \in DOMAIN LastSnap.partitionTable
             THEN Some(LastSnap.partitionTable[id])
             ELSE Nil
    /\ ret.op = "PhysicalTableByID" =>
          /\ ret.path = "table" <=> ret.val \in DOMAIN LastSnap.tables
          /\ ret.path = "partition" <=>
                /\ ret.val \notin DOMAIN LastSnap.tables
                /\ ret.val \in DOMAIN LastSnap.partitionTable
          /\ ret.path = "absent" <=>
                /\ ret.val \notin DOMAIN LastSnap.tables
                /\ ret.val \notin DOMAIN LastSnap.partitionTable

\* 11 is the id of a table and of a partition of table 10, and the reader
\* asking for 11 got table 11
C37_Witness ==
    /\ ret.op = "PhysicalTableByID" /\ ret.val = 11 /\ ret.path = "table"
    /\ 11 \in DOMAIN LastSnap.tables
    /\ 11 \in DOMAIN LastSnap.partitionTable
    /\ LastSnap.partitionTable[11].ID = 10
====
